---- MODULE Spec2Model ----
(***************************************************************************)
(* A model of the voice connection supervisor of discord.py                *)
(* (src/discord/voice_state.py): the nine-state connection flow, the two   *)
(* control-plane handlers, the connector task, the poller task and the     *)
(* SocketReader flags.                                                     *)
(*                                                                         *)
(* The asyncio reactor is single-threaded: a coroutine runs without        *)
(* interleaving from one wait to the next.  The waits that are modelled as *)
(* positions of a task are the ones that wait for something external: a    *)
(* state change (_wait_for_state), a frame of the signaling WebSocket      *)
(* (poll_event), the opening of a WebSocket and the sleeps.  A send or a   *)
(* close is taken to complete within the step that issues it.              *)
(***************************************************************************)
EXTENDS Integers, Sequences, FiniteSets, TLC

(***************************************************************************)
(* Bounds                                                                  *)
(***************************************************************************)
\* Session ids carried by voice_state_update are 1..MaxSession.
MaxSession == 1
\* Channel ids are 1..MaxChannel; the voice client starts in channel 1.
MaxChannel == 2
\* DISPATCH frames carry a sequence number s in 1..MaxSeq.
MaxSeq == 2
\* wait_for hands out at most MaxFutures futures.
MaxFutures == 2
\* The heartbeat interval a HELLO announces, in clock ticks.
Interval == 2
\* A socket object starts at most MaxDrivers heartbeat drivers.
MaxDrivers == 2
\* A stream holds at most MaxFrames whole frames.
MaxFrames == 3
\* stop() is called by the user at most MaxStops times.
MaxStops == 2
\* At most MaxCallbacks callbacks are registered with the SocketReader.
MaxCallbacks == 2
\* At most MaxOwed leaves of the supervisor are left unanswered at a time.
MaxOwed == 2

(***************************************************************************)
(* Values                                                                  *)
(***************************************************************************)
\* utils.MISSING, the falsy "not yet set" sentinel, and Python's None.
MISSING == 0
None == 0 - 1

\* ConnectionFlowState
disconnected == 0
set_guild_voice_state == 1
got_voice_state_update == 2
got_voice_server_update == 3
got_both_voice_updates == 4
websocket_connected == 5
got_websocket_ready == 6
got_ip_discovery == 7
connected == 8

FlowStates == disconnected .. connected

\* The id of the guild the voice client belongs to.
GuildId == 7

\* Close codes a signaling WebSocket can be closed with.  1006 is the close
\* issued by the heartbeat driver for a zombie connection.
CloseCodes == {1000, 4014, 4015, 1006}

\* range(5) of the connection attempt loop.
MaxAttempts == 5

\* An endpoint is a sequence of string pieces.  These two stand for the
\* sentinel MISSING in the endpoint field and for a null endpoint in a payload.
EndpointMissing == <<"MISSING">>
EndpointNone == <<"None">>

\* Raw endpoints of voice_server_update: one host, without and with the
\* scheme.
RawEndpoints ==
    { <<"h1", ":", "443">>,
      <<"wss", ":", "//", "h1", ":", "443">> }

\* Raw endpoints that carry no port, without and with the scheme.
PortlessEndpoints ==
    { <<"h1">>,
      <<"wss", ":", "//", "h1">> }

Sessions == 1 .. MaxSession
Channels == 1 .. MaxChannel

\* Payloads of the two control-plane events.
VoiceStatePayloads ==
    [channel_id : Channels \cup {None}, session_id : Sessions]
VoiceServerPayloads ==
    [token : {1, None}, guild_id : {GuildId}, endpoint : RawEndpoints \cup {EndpointNone}]

(***************************************************************************)
(* Strings as sequences                                                    *)
(***************************************************************************)
\* The index of the last ":" of e, 0 when there is none.
RECURSIVE LastColon(_, _)
LastColon(e, i) ==
    IF i = 0 THEN 0
    ELSE IF e[i] = ":" THEN i
    ELSE LastColon(e, i - 1)

\* head of e.rpartition(':'): everything before the last ':', the empty
\* string when e holds no ':'.
RPartitionHead(e) ==
    LET k == LastColon(e, Len(e))
    IN IF k = 0 THEN << >> ELSE SubSeq(e, 1, k - 1)

StartsWithWss(e) ==
    Len(e) >= 3 /\ SubSeq(e, 1, 3) = <<"wss", ":", "//">>

\* voice_server_update's endpoint normalisation
StripEndpoint(raw) ==
    LET h == RPartitionHead(raw)
    IN IF StartsWithWss(h) THEN SubSeq(h, 4, Len(h)) ELSE h

(***************************************************************************)
(* Effects of one step                                                     *)
(***************************************************************************)
\* What the step under way has done to the outside: control-plane leaves
\* (change_voice_state(channel=None)) and joins sent, calls of the owner's
\* cleanup hook, WebSockets opened and closed, sockets created, and the
\* exception that left the handler, if any.
NoEffect ==
    [leave |-> 0, join |-> 0, cleanup |-> 0, ws_open |-> 0, ws_close |-> 0,
     sock_new |-> 0, exc |-> "none"]

(***************************************************************************)
(* Tasks and sockets                                                       *)
(***************************************************************************)
NoTask == [status |-> "MISSING", pc |-> "none", reconnect |-> FALSE,
           resume |-> FALSE, i |-> 0, wait |-> 0]

NoWs == [status |-> "MISSING", code |-> 0, secret_key |-> FALSE]

\* A task object is truthy; utils.MISSING is not.
Truthy(t) == t.status # "MISSING"

\* asyncio.Task.done()
Done(t) == t.status \in {"finished", "cancelled", "failed"}

(***************************************************************************)
(* SocketReader                                                            *)
(***************************************************************************)
\* SocketReader.pause
ReaderPause(r) == [r EXCEPT !.idle_paused = FALSE, !.running = FALSE]

\* SocketReader.resume(force=False)
ReaderResume(r) ==
    IF r.running THEN r
    ELSE IF r.callbacks = 0 THEN [r EXCEPT !.idle_paused = TRUE]
    ELSE [r EXCEPT !.idle_paused = FALSE, !.running = TRUE]

\* register setting the running flag whatever the pause.
ReaderRegister_AlwaysRuns(r) ==
    [r EXCEPT !.callbacks = @ + 1, !.idle_paused = FALSE, !.running = TRUE]

\* SocketReader.register; callbacks counts the entries of _callbacks.
ReaderRegister(r) ==
    LET a == [r EXCEPT !.callbacks = @ + 1]
    IN IF a.idle_paused
       THEN [a EXCEPT !.idle_paused = FALSE, !.running = TRUE]
       ELSE a

\* SocketReader.unregister of a callback that is, or is not, registered.
ReaderUnregister(r, registered) ==
    IF ~registered THEN r
    ELSE LET a == [r EXCEPT !.callbacks = @ - 1]
         IN IF a.callbacks = 0 /\ a.running
            THEN [a EXCEPT !.idle_paused = TRUE, !.running = FALSE]
            ELSE a

\* SocketReader._do_run: the tests of _end and _running at the loop's top;
\* past the loop, run's finally stops the reader and clears everything.
ReaderLoop(r) ==
    IF r.end
    THEN [r EXCEPT !.pc = "ended", !.running = FALSE, !.callbacks = 0]
    ELSE IF ~r.running THEN [r EXCEPT !.pc = "wait"]
    ELSE [r EXCEPT !.pc = "select"]

\* SocketReader._do_run: select on the socket; it raises on a socket that
\* is missing or closed and may time out on an open one.
ReaderSelect(r, socket, readable) ==
    IF socket = "open" /\ readable
    THEN [r EXCEPT !.pc = "recv"]
    ELSE [r EXCEPT !.pc = "loop"]

\* SocketReader._do_run: recv and the calls of the callbacks.
ReaderRecv(r) == [r EXCEPT !.pc = "loop"]

\* SocketReader.stop
ReaderStop(r) == [r EXCEPT !.end = TRUE, !.running = TRUE]

(***************************************************************************)
(* VoiceConnectionState: helpers                                           *)
(***************************************************************************)
\* The state after __init__, once the reader thread has started.
InitialState ==
    [token |-> MISSING, session_id |-> MISSING, endpoint |-> EndpointMissing,
     endpoint_ip |-> MISSING, server_id |-> MISSING, ip |-> MISSING,
     port |-> MISSING, ssrc |-> MISSING,
     socket |-> "MISSING", ws |-> NoWs,
     state |-> disconnected, expecting_disconnect |-> FALSE,
     runner |-> NoTask, connector |-> NoTask, replaced |-> FALSE,
     reader |-> [callbacks |-> 0, running |-> TRUE, end |-> FALSE,
                 idle_paused |-> TRUE, pc |-> "loop"],
     channel |-> 1,
     eff |-> NoEffect]

\* An exception leaves the coroutine under way.
Raise(s, e) == [s EXCEPT !.eff.exc = e]
Raised(s) == s.eff.exc # "none"

\* DiscordVoiceWebSocket.close(code): the first close decides the code the
\* reading side observes.
WsClose(s, code) ==
    IF s.ws.status = "open"
    THEN [s EXCEPT !.ws.status = "closed", !.ws.code = code,
                   !.eff.ws_close = @ + 1]
    ELSE s

\* if self.socket: self.socket.close()
SocketClose(s) ==
    IF s.socket # "MISSING" THEN [s EXCEPT !.socket = "closed"] ELSE s

\* VoiceConnectionState._create_socket
CreateSocket(s) ==
    [s EXCEPT !.socket = "open", !.eff.sock_new = @ + 1,
              !.reader = ReaderResume(@)]

\* asyncio.Task.cancel() of a task that waits: the task ends at its wait.
\* The poller returns on CancelledError at poll_event and lets it propagate
\* elsewhere; either way it runs no further statement.
CancelTask(t) == IF Done(t) THEN t ELSE [t EXCEPT !.status = "cancelled"]

\* VoiceConnectionState._voice_disconnect
VoiceDisconnect(s) ==
    [s EXCEPT !.state = disconnected, !.eff.leave = @ + 1,
              !.expecting_disconnect = TRUE]

\* DisconnectFinally that stops the reader and calls the cleanup hook
\* whatever the cleanup argument.
DisconnectFinally_AlwaysCleanup(s, cleanup) ==
    LET a == [s EXCEPT !.ip = MISSING, !.port = MISSING,
                       !.state = disconnected, !.reader = ReaderPause(@)]
    IN SocketClose([a EXCEPT !.reader = ReaderStop(@), !.eff.cleanup = @ + 1])

\* The finally block of disconnect
DisconnectFinally(s, cleanup) ==
    LET a == [s EXCEPT !.ip = MISSING, !.port = MISSING,
                       !.state = disconnected, !.reader = ReaderPause(@)]
        b == IF cleanup
             THEN [a EXCEPT !.reader = ReaderStop(@), !.eff.cleanup = @ + 1]
             ELSE a
    IN SocketClose(b)

\* VoiceConnectionState.disconnect(force=True, cleanup)
Disconnect(s, cleanup) ==
    DisconnectFinally(VoiceDisconnect(WsClose(s, 1000)), cleanup)

\* VoiceConnectionState.soft_disconnect(with_state)
\* self._runner.cancel() is its first statement: with _runner still MISSING
\* the attribute lookup fails and nothing else of the method runs.
SoftDisconnect(s, with_state) ==
    IF ~Truthy(s.runner) THEN Raise(s, "AttributeError")
    ELSE LET a == [s EXCEPT !.runner = CancelTask(@)]
             b == WsClose(a, 1000)
             c == [b EXCEPT !.ip = MISSING, !.port = MISSING,
                            !.state = with_state, !.reader = ReaderPause(@)]
         IN SocketClose(c)

\* A connector task that was created and has not run yet.
NewConnector(reconnect, resume) ==
    [status |-> "running", pc |-> "start", reconnect |-> reconnect,
     resume |-> resume, i |-> 0, wait |-> 0]

\* VoiceConnectionState.connect(..., wait=False): replaces the connector and
\* drops the poller.  A connector cancelled inside _connect has its
\* CancelledError still to handle; one cancelled before its first step never
\* runs.
Connect(s, reconnect, resume) ==
    LET a == IF Truthy(s.connector) /\ ~Done(s.connector)
             THEN [s EXCEPT !.connector = NoTask,
                            !.replaced = @ \/ s.connector.pc # "start"]
             ELSE s
        b == IF Truthy(a.runner) THEN [a EXCEPT !.runner = NoTask] ELSE a
    IN [b EXCEPT !.connector = NewConnector(reconnect, resume)]

(***************************************************************************)
(* The two control-plane handlers                                          *)
(***************************************************************************)
\* NullChannelUpdate with the test of the flag lost: every null-channel
\* update is taken for our own leave.
NullChannelUpdate_NeverDisconnects(s) ==
    [s EXCEPT !.expecting_disconnect = FALSE]

\* NullChannelUpdate with the flag cleared but the disconnect run anyway.
NullChannelUpdate_AlwaysDisconnects(s) ==
    Disconnect([s EXCEPT !.expecting_disconnect = FALSE], TRUE)

\* voice_state_update with channel_id None: our own leave coming back, or
\* an external disconnect.
NullChannelUpdate(s) ==
    IF s.expecting_disconnect
    THEN [s EXCEPT !.expecting_disconnect = FALSE]
    ELSE Disconnect(s, TRUE)

\* ConnectingAfterVoiceState that forgets the voice_server_update seen before.
ConnectingAfterVoiceState_Forgets(state) == got_voice_state_update

\* The flow state after a voice_state_update received while connecting.
ConnectingAfterVoiceState(state) ==
    IF state = set_guild_voice_state
    THEN got_voice_state_update
    ELSE got_both_voice_updates

\* ConnectedUpdate that treats a move while connected like a move while
\* connecting: soft_disconnect and a new connect.
ConnectedUpdate_Reconnects(s, data) ==
    IF data.channel_id # s.channel
    THEN Connect(SoftDisconnect([s EXCEPT !.channel = data.channel_id],
                                got_voice_state_update), TRUE, FALSE)
    ELSE s

\* voice_state_update while connected: the channel reference follows.
ConnectedUpdate(s, data) == [s EXCEPT !.channel = data.channel_id]

\* voice_state_update in the other states but disconnected: a channel move
\* during the connection flow.
MovedWhileConnecting(s, data) ==
    IF data.channel_id # s.channel
    THEN LET b == [s EXCEPT !.channel = data.channel_id]
             c == SoftDisconnect(b, got_voice_state_update)
         IN IF Raised(c) THEN c ELSE Connect(c, TRUE, FALSE)
    ELSE s

\* VoiceConnectionState.voice_state_update
voice_state_update(s, data) ==
    IF data.channel_id = None
    THEN NullChannelUpdate(s)
    ELSE LET a == [s EXCEPT !.session_id = data.session_id]
         IN IF a.state \in {set_guild_voice_state, got_voice_server_update}
            THEN [a EXCEPT !.state = ConnectingAfterVoiceState(a.state)]
            ELSE IF a.state = connected
            THEN ConnectedUpdate(a, data)
            ELSE IF a.state # disconnected
            THEN MovedWhileConnecting(a, data)
            ELSE a

\* ConnectingAfterVoiceServer that forgets the voice_state_update seen before.
ConnectingAfterVoiceServer_Forgets(state) == got_voice_server_update

\* The flow state after a voice_server_update received while connecting.
ConnectingAfterVoiceServer(state) ==
    IF state = set_guild_voice_state
    THEN got_voice_server_update
    ELSE got_both_voice_updates

\* VoiceConnectionState.voice_server_update
voice_server_update(s, data) ==
    LET a == [s EXCEPT !.token = data.token, !.server_id = data.guild_id]
    IN IF a.token = None \/ data.endpoint = EndpointNone
       THEN a
       ELSE LET b == [a EXCEPT !.endpoint = StripEndpoint(data.endpoint)]
            IN IF b.state \in {set_guild_voice_state, got_voice_state_update}
               THEN LET c == CreateSocket([b EXCEPT !.endpoint_ip = MISSING])
                    IN [c EXCEPT !.state = ConnectingAfterVoiceServer(c.state)]
               ELSE IF b.state = connected
               THEN [WsClose(b, 4014) EXCEPT !.state = got_voice_server_update]
               ELSE IF b.state # disconnected
               THEN LET c == SoftDisconnect(b, got_voice_server_update)
                    IN IF Raised(c) THEN c
                       ELSE CreateSocket(Connect(c, TRUE, FALSE))
               ELSE b

(***************************************************************************)
(* The connector task: _wrap_connect and _connect                          *)
(***************************************************************************)
\* The poller task _connect creates: self._runner = create_task(_poll_voice_ws)
NewRunner(reconnect) ==
    [status |-> "running", pc |-> "poll", reconnect |-> reconnect,
     resume |-> FALSE, i |-> 0, wait |-> 0]

\* The end of _connect, after the attempt loop.
ConnectEnd(s) ==
    LET a == IF s.runner.status = "MISSING"
             THEN [s EXCEPT !.runner = NewRunner(s.connector.reconnect)]
             ELSE s
    IN [a EXCEPT !.connector.status = "finished", !.connector.pc = "done"]

\* _connect raised: _wrap_connect catches the exception and disconnects.
ConnectRaised(s) ==
    [Disconnect(s, TRUE) EXCEPT !.connector.status = "finished",
                                !.connector.pc = "raised"]

\* soft_disconnect that skips the cancel when there is no poller.
SoftDisconnect_SkipsMissingRunner(s, with_state) ==
    LET a == [s EXCEPT !.runner = IF Truthy(@) THEN CancelTask(@) ELSE @]
        b == WsClose(a, 1000)
        c == [b EXCEPT !.ip = MISSING, !.port = MISSING,
                       !.state = with_state, !.reader = ReaderPause(@)]
    IN SocketClose(c)

\* The cancellation handling with a soft_disconnect that cannot fail.
ReplacedCancelled_Completes(s) ==
    [SoftDisconnect_SkipsMissingRunner(s, got_both_voice_updates)
        EXCEPT !.replaced = FALSE]

\* _wrap_connect's except asyncio.CancelledError in a connector that
\* connect() has replaced: soft_disconnect() with its default with_state;
\* whatever it raises ends the old task only.
ReplacedCancelled(s) ==
    [SoftDisconnect(s, got_both_voice_updates) EXCEPT !.replaced = FALSE]

\* _wrap_connect's except asyncio.CancelledError: soft_disconnect() with its
\* default with_state.  When soft_disconnect raises, the exception leaves
\* _wrap_connect and the task fails with it.
ConnectCancelled(s) ==
    LET a == SoftDisconnect(s, got_both_voice_updates)
    IN IF Raised(a)
       THEN [a EXCEPT !.connector.status = "failed",
                      !.connector.pc = "cancel_raised"]
       ELSE [a EXCEPT !.connector.status = "finished",
                      !.connector.pc = "cancelled"]

\* The head of one attempt: _voice_connect, the state change out of
\* disconnected, and the first test of _wait_for_state.
BeginAttempt(s) ==
    LET a == [s EXCEPT !.eff.join = @ + 1]
        b == IF a.state = disconnected
             THEN [a EXCEPT !.state = set_guild_voice_state] ELSE a
    IN IF b.state = got_both_voice_updates
       THEN [b EXCEPT !.connector.pc = "ws_connect"]
       ELSE [b EXCEPT !.connector.pc = "wait_both"]

\* RetryWait without the factor 2.
RetryWait_Linear(i) == 1 + i

\* The sleep of a failed attempt: wait = 1 + i * 2.0
RetryWait(i) == 1 + i * 2

\* except (ConnectionClosed, asyncio.TimeoutError) of the attempt loop
AttemptFailed(s) ==
    IF s.connector.reconnect
    THEN [Disconnect(s, FALSE) EXCEPT !.connector.pc = "sleep",
                                      !.connector.wait = RetryWait(s.connector.i)]
    ELSE ConnectRaised(Disconnect(s, TRUE))

(***************************************************************************)
(* The signaling handshake, shared by _connect and _potential_reconnect    *)
(***************************************************************************)
\* DiscordVoiceWebSocket.from_connection_state and _connect_websocket
ConnectWebsocket(s) ==
    [s EXCEPT !.ws = [status |-> "open", code |-> 0, secret_key |-> FALSE],
              !.eff.ws_open = @ + 1,
              !.state = websocket_connected]

\* Handshake that does not wait for the secret key: connected as soon as
\* the discovery has set ip.
Handshake_NoKeyWait(s, t) ==
    IF s[t].pc = "hs_ip" /\ s.ip # MISSING
    THEN [s EXCEPT !.state = connected, ![t].pc = "hs_done"]
    ELSE s

\* _handshake_websocket from its current loop on, for the task t: the pc it
\* waits at, or "hs_done" once the state is connected.
Handshake(s, t) ==
    LET a == IF s[t].pc = "hs_ip" /\ s.ip # MISSING
             THEN [s EXCEPT !.state = got_ip_discovery, ![t].pc = "hs_key"]
             ELSE s
    IN IF a[t].pc = "hs_key" /\ a.ws.secret_key
       THEN [a EXCEPT !.state = connected, ![t].pc = "hs_done"]
       ELSE a

\* READY with a discovery that stores the address but not the port.
InitialConnection_ForgetsPort(s) ==
    IF s.socket # "open" THEN Raise(s, "OSError")
    ELSE [s EXCEPT !.ssrc = 1, !.ip = 1]

\* READY: initial_connection with UDP discovery on the supervisor's socket.
InitialConnection(s) ==
    IF s.socket # "open" THEN Raise(s, "OSError")
    ELSE [s EXCEPT !.ssrc = 1, !.ip = 1, !.port = 1]

\* SESSION_DESCRIPTION: load_secret_key
LoadSecretKey(s) == [s EXCEPT !.ws.secret_key = TRUE]

\* The far side, or the heartbeat driver, closes the WebSocket with a code.
RemoteClose(s, code) ==
    [s EXCEPT !.ws.status = "closed", !.ws.code = code]

(***************************************************************************)
(* The poller task: _poll_voice_ws and _potential_reconnect                *)
(***************************************************************************)
\* NormalCloseCodes without 4015.
NormalCloseCodes_Only1000 == {1000}

\* Close codes after which the poller disconnects and ends.
NormalCloseCodes == {1000, 4015}

\* The states _potential_reconnect waits for.
PotentialStates == {got_voice_server_update, got_both_voice_updates}

\* PotentialFailed that breaks out of the loop without the disconnect.
PotentialFailed_NoDisconnect(s) ==
    [s EXCEPT !.runner.status = "finished", !.runner.pc = "pr_failed"]

\* _potential_reconnect returned False: disconnect and break.
PotentialFailed(s) ==
    [Disconnect(s, TRUE) EXCEPT !.runner.status = "finished",
                                !.runner.pc = "pr_failed"]

\* ReconnectOrRaise that reconnects whatever the reconnect setting.
ReconnectOrRaise_AlwaysReconnects(s) == [s EXCEPT !.runner.pc = "backoff"]

\* The poller's handling of a close code that is neither normal nor 4014,
\* and of a poll timeout.
ReconnectOrRaise(s) ==
    IF ~s.runner.reconnect
    THEN [Disconnect(s, TRUE) EXCEPT !.runner.status = "failed",
                                     !.runner.pc = "raised"]
    ELSE [s EXCEPT !.runner.pc = "backoff"]

\* except ConnectionClosed in _poll_voice_ws
PollClosed(s, code) ==
    IF code \in NormalCloseCodes
    THEN [Disconnect(s, TRUE) EXCEPT !.runner.status = "finished",
                                     !.runner.pc = "closed_normal"]
    ELSE IF code = 4014
    THEN IF s.state \in PotentialStates
         THEN [s EXCEPT !.runner.pc = "pr_ws_connect"]
         ELSE [s EXCEPT !.runner.pc = "pr_wait"]
    ELSE ReconnectOrRaise(s)

\* await self.connect(...) in the poller.  The caller is self._runner, so
\* connect() cancels the caller; the caller's await of the new connector then
\* passes the cancellation on to the connector, which has not run a single
\* statement, and both tasks end cancelled.
PollerConnect(s) ==
    LET a == Connect(s, s.runner.reconnect, FALSE)
    IN IF Truthy(s.runner)
       THEN [a EXCEPT !.connector.status = "cancelled"]
       ELSE a

(***************************************************************************)
(* DiscordWebSocket: the gateway socket                                    *)
(***************************************************************************)
\* Opcodes
DISPATCH == 0
HEARTBEAT == 1
IDENTIFY == 2
PRESENCE == 3
VOICE_STATE == 4
VOICE_PING == 5
RESUME == 6
RECONNECT == 7
INVALIDATE_SESSION == 9
HELLO == 10
HEARTBEAT_ACK == 11
GUILD_SYNC == 12

\* The shard the socket serves (ws.shard_id).
ShardId == 3

\* Close codes a gateway socket is closed with.
GatewayCloseCodes == {1000, 1006, 4004, 4010, 4011}

\* Sequence numbers s of DISPATCH frames, event names, and the data d of a
\* frame (for INVALIDATE_SESSION: 1 is true, 0 is false).
SeqNumbers == 1 .. MaxSeq
Events == {"READY", "RESUMED", "MESSAGE_CREATE"}
\* The events callers wait for.
WaitEvents == {"MESSAGE_CREATE"}
Data == {0, 1}

\* Frames the gateway sends.  Only DISPATCH frames carry s and t.
Frames ==
    [op : {DISPATCH}, s : SeqNumbers, t : Events, d : Data]
    \cup [op : {HEARTBEAT, HEARTBEAT_ACK, HELLO, RECONNECT, VOICE_PING},
          s : {None}, t : {"none"}, d : {0}]
    \cup [op : {INVALIDATE_SESSION}, s : {None}, t : {"none"}, d : Data]

\* No exception, and an exception with the shard id it carries (None when
\* it carries none).
NoExc == [type |-> "none", shard_id |-> None]
Exc(type, shard_id) == [type |-> type, shard_id |-> shard_id]

\* The socket after __init__ and from_client, before the first frame.  futs
\* holds the state of every future wait_for has handed out; hist is what an
\* observer has noted: the largest s since the last READY or RESUMED,
\* whether the s values since then came in non-decreasing order, and
\* whether a dispatch pass was aborted.
\* A KeepAliveHandler thread: the time since its last ack (_last_ack), the
\* time until its wait(interval) ends, its stop event, and where its run
\* loop is: waiting, or holding a coroutine it hands to the event loop.
NoDriver ==
    [thread |-> "none", stop_ev |-> FALSE, since_ack |-> 0, until_wake |-> 0,
     pc |-> "none"]

\* KeepAliveHandler.__init__ and start: creation counts as an ack.
NewDriver ==
    [thread |-> "running", stop_ev |-> FALSE, since_ack |-> 0,
     until_wake |-> Interval, pc |-> "wait"]

\* Ages are counted up to MaxAge.
MaxAge == 4 * Interval

GatewayInitial ==
    [status |-> "open", code |-> 0,
     session_id |-> None, sequence |-> None,
     keep_alive |-> 0,
     drivers |-> [i \in 1 .. MaxDrivers |-> NoDriver],
     listeners |-> << >>,
     futs |-> [i \in 1 .. MaxFutures |-> "none"],
     sent |-> << >>, exc |-> NoExc,
     hist |-> [maxseen |-> None, ordered |-> TRUE, aborted |-> FALSE]]

GwRaise(g, type, shard_id) == [g EXCEPT !.exc = Exc(type, shard_id)]
GwRaised(g) == g.exc.type # "none"

\* _can_handle_close with 4011 left out of the terminal codes.
can_handle_close_Without4011(code) == code \notin {1000, 4004, 4010}

\* DiscordWebSocket._can_handle_close
can_handle_close(code) == code \notin {1000, 4004, 4010, 4011}

\* websockets' send on this socket: raises the library's ConnectionClosed
\* when the socket is closed.
send(g, op) ==
    IF g.status = "closed"
    THEN GwRaise(g, "websockets.ConnectionClosed", None)
    ELSE [g EXCEPT !.sent = Append(@, op)]

\* DiscordWebSocket.send_as_json
send_as_json(g, op) ==
    LET a == send(g, op)
    IN IF GwRaised(a)
       THEN IF ~can_handle_close(g.code)
            THEN GwRaise(g, "ConnectionClosed", ShardId)
            ELSE g
       ELSE a

\* The send operations of the gateway socket.
identify(g) == send_as_json(g, IDENTIFY)
send_resume(g) == send_as_json(g, RESUME)
heartbeat(g) == send_as_json(g, HEARTBEAT)
voice_state(g) == send_as_json(g, VOICE_STATE)
request_sync(g) == send_as_json(g, GUILD_SYNC)
change_presence(g) == send(g, PRESENCE)

SendOps ==
    {"identify", "resume", "heartbeat", "voice_state", "request_sync",
     "change_presence"}

SendOp(g, name) ==
    CASE name = "identify" -> identify(g)
      [] name = "resume" -> send_resume(g)
      [] name = "heartbeat" -> heartbeat(g)
      [] name = "voice_state" -> voice_state(g)
      [] name = "request_sync" -> request_sync(g)
      [] name = "change_presence" -> change_presence(g)

\* close_connection: stops the heartbeat driver the socket refers to.
close_connection(g) ==
    IF g.keep_alive # 0
    THEN [g EXCEPT !.drivers[g.keep_alive].stop_ev = TRUE]
    ELSE g

\* close(code): the closing handshake with the code, then close_connection.
close(g, code) ==
    IF g.status = "open"
    THEN close_connection([g EXCEPT !.status = "closed", !.code = code])
    ELSE g

\* asyncio.Future.set_result / set_exception: a future that is already
\* done or cancelled raises InvalidStateError and keeps its outcome.
set_outcome(g, future, outcome) ==
    IF g.futs[future] = "pending"
    THEN [g EXCEPT !.futs[future] = outcome]
    ELSE GwRaise(g, "InvalidStateError", None)

\* asyncio.Future.cancel: no effect on a future that is done.
cancel(g, future) ==
    IF g.futs[future] = "pending"
    THEN [g EXCEPT !.futs[future] = "cancelled"]
    ELSE g

\* Predicates and projectors a caller hands to wait_for.  The predicate
\* "match" accepts data 1; "raise" raises on data 1 and rejects data 0.  The
\* projector "None" is result=None, "project" returns a value, "raise"
\* raises.
Predicates == {"match", "raise"}
Projectors == {"None", "project", "raise"}

PredicateRaises(predicate, d) == predicate = "raise" /\ d = 1
PredicateValid(predicate, d) == predicate = "match" /\ d = 1

\* DiscordWebSocket.wait_for: the future handed out is the first unused one.
wait_for(g, event, predicate, result) ==
    LET future == CHOOSE f \in 1 .. MaxFutures :
                      /\ g.futs[f] = "none"
                      /\ \A e \in 1 .. (f - 1) : g.futs[e] # "none"
        entry == [event |-> event, predicate |-> predicate,
                  result |-> result, future |-> future]
    IN [g EXCEPT !.futs[future] = "pending",
                 !.listeners = Append(@, entry)]

RECURSIVE DeleteIndices(_, _, _)
\* for index in reversed(removed): del self._dispatch_listeners[index]
DeleteIndices(listeners, removed, index) ==
    IF index > Len(listeners) THEN << >>
    ELSE (IF index \in removed THEN << >> ELSE << listeners[index] >>)
         \o DeleteIndices(listeners, removed, index + 1)

\* The listener loop with a removal that forgets the completed listeners.
DispatchEntry_KeepsCompleted(g, entry, d) ==
    IF g.futs[entry.future] = "cancelled" THEN [g |-> g, remove |-> TRUE]
    ELSE IF PredicateRaises(entry.predicate, d)
    THEN [g |-> set_outcome(g, entry.future, "exception"), remove |-> FALSE]
    ELSE IF PredicateValid(entry.predicate, d)
    THEN IF entry.result = "raise"
         THEN [g |-> GwRaise(g, "ProjectorError", None), remove |-> FALSE]
         ELSE [g |-> set_outcome(g, entry.future,
                                 IF entry.result = "None" THEN "data"
                                 ELSE "projected"),
               remove |-> FALSE]
    ELSE [g |-> g, remove |-> FALSE]

\* One listener of the event in the listener loop: the socket afterwards
\* and whether the listener's index is noted for removal.  A raise of the
\* projector or of the future leaves the loop.
DispatchEntry(g, entry, d) ==
    IF g.futs[entry.future] = "cancelled" THEN [g |-> g, remove |-> TRUE]
    ELSE IF PredicateRaises(entry.predicate, d)
    THEN [g |-> set_outcome(g, entry.future, "exception"), remove |-> TRUE]
    ELSE IF PredicateValid(entry.predicate, d)
    THEN IF entry.result = "raise"
         THEN [g |-> GwRaise(g, "ProjectorError", None), remove |-> FALSE]
         ELSE [g |-> set_outcome(g, entry.future,
                                 IF entry.result = "None" THEN "data"
                                 ELSE "projected"),
               remove |-> TRUE]
    ELSE [g |-> g, remove |-> FALSE]

RECURSIVE DispatchListeners(_, _, _, _, _)
\* The listener loop of received_message and the removal after it.
DispatchListeners(g, event, d, index, removed) ==
    IF index > Len(g.listeners)
    THEN [g EXCEPT !.listeners = DeleteIndices(@, removed, 1)]
    ELSE LET entry == g.listeners[index]
         IN IF entry.event # event
            THEN DispatchListeners(g, event, d, index + 1, removed)
            ELSE LET r == DispatchEntry(g, entry, d)
                 IN IF GwRaised(r.g) THEN r.g
                    ELSE DispatchListeners(
                             r.g, event, d, index + 1,
                             IF r.remove THEN removed \cup {index}
                             ELSE removed)

\* INVALIDATE_SESSION with the two branches on d exchanged.
InvalidateSession_Swapped(g, d) ==
    IF d = 0
    THEN GwRaise(close(g, 1000), "ResumeWebSocket", ShardId)
    ELSE identify([g EXCEPT !.sequence = None, !.session_id = None])

\* received_message, op INVALIDATE_SESSION
InvalidateSession(g, d) ==
    IF d = 1
    THEN GwRaise(close(g, 1000), "ResumeWebSocket", ShardId)
    ELSE identify([g EXCEPT !.sequence = None, !.session_id = None])

\* The session id a READY frame carries in its data.
ReadySession == 1

\* received_message, op DISPATCH
Dispatch(g, msg) ==
    LET a == IF msg.t = "READY"
             THEN [g EXCEPT !.sequence = msg.s,
                            !.session_id = ReadySession]
             ELSE g
    IN DispatchListeners(a, msg.t, msg.d, 1, {})

\* The sequence bookkeeping of received_message keeping the larger value.
NoteSequence_KeepsMax(g, seq) ==
    IF seq # None /\ seq > g.sequence THEN [g EXCEPT !.sequence = seq] ELSE g

\* received_message: seq = msg.get('s'); if seq is not None: ...
NoteSequence(g, seq) ==
    IF seq # None THEN [g EXCEPT !.sequence = seq] ELSE g

\* KeepAliveHandler.ack
ack(driver) == [driver EXCEPT !.since_ack = 0]

\* The first driver slot of the socket not yet used.
FreeDriver(g) ==
    CHOOSE i \in 1 .. MaxDrivers :
        /\ g.drivers[i].thread = "none"
        /\ \A j \in 1 .. (i - 1) : g.drivers[j].thread # "none"

\* received_message, op HELLO: a new driver is created, referred to and
\* started; a driver referred to before is left as it is.
Hello(g) ==
    LET i == FreeDriver(g)
    IN [g EXCEPT !.drivers[i] = NewDriver, !.keep_alive = i]

\* The zombie test with three intervals of grace.
Zombie_ThreeIntervals(driver) == driver.since_ack > 3 * Interval

\* KeepAliveHandler.run: self._last_ack + 2 * self.interval < time.time()
Zombie(driver) == driver.since_ack > 2 * Interval

\* KeepAliveHandler.run: wait(interval) times out; the thread prepares
\* ws.close(1006) or the heartbeat for the event loop.
driver_wake(g, i) ==
    [g EXCEPT !.drivers[i].pc = IF Zombie(g.drivers[i]) THEN "close" ELSE "send"]

\* The zombie branch leaving the thread in its loop.
driver_close_KeepsRunning(g, i) ==
    LET a == close(g, 1006)
    IN [a EXCEPT !.drivers[i].pc = "wait", !.drivers[i].until_wake = Interval]

\* KeepAliveHandler.run, zombie branch: the event loop runs close(1006);
\* whatever it raises is dropped, the thread stops and returns.
driver_close(g, i) ==
    LET a == close(g, 1006)
    IN [a EXCEPT !.drivers[i].stop_ev = TRUE,
                 !.drivers[i].thread = "terminated",
                 !.drivers[i].pc = "none"]

\* KeepAliveHandler.run, heartbeat branch: the event loop runs
\* send_as_json; an exception stops the thread at its next wait.
driver_send(g, i) ==
    LET a == send_as_json(g, HEARTBEAT)
        b == [a EXCEPT !.exc = g.exc,
                       !.drivers[i].pc = "wait",
                       !.drivers[i].until_wake = Interval]
    IN IF GwRaised(a) /\ ~GwRaised(g)
       THEN [b EXCEPT !.drivers[i].stop_ev = TRUE]
       ELSE b

\* KeepAliveHandler.run: wait returns true, the loop and the thread end.
driver_exit(g, i) ==
    [g EXCEPT !.drivers[i].thread = "terminated", !.drivers[i].pc = "none"]

\* A driver whose thread counts time: alive and not stopped.
Beating(driver) == driver.thread = "running" /\ ~driver.stop_ev

\* A tick of the clock for a driver.
Aged(driver) ==
    IF Beating(driver)
    THEN [driver EXCEPT !.since_ack = IF @ < MaxAge THEN @ + 1 ELSE @,
                        !.until_wake = @ - 1]
    ELSE driver

\* DiscordWebSocket.received_message
received_message(g, msg) ==
    LET a == NoteSequence(g, msg.s)
    IN CASE msg.op = RECONNECT ->
              GwRaise(close(a, 1000), "ResumeWebSocket", ShardId)
         [] msg.op = HEARTBEAT_ACK ->
              IF a.keep_alive = 0
              THEN GwRaise(a, "AttributeError", None)
              ELSE [a EXCEPT !.drivers[a.keep_alive] = ack(@)]
         [] msg.op = HEARTBEAT ->
              IF a.keep_alive = 0
              THEN GwRaise(a, "AttributeError", None)
              ELSE send_as_json(a, HEARTBEAT)
         [] msg.op = HELLO -> Hello(a)
         [] msg.op = INVALIDATE_SESSION -> InvalidateSession(a, msg.d)
         [] msg.op = DISPATCH -> Dispatch(a, msg)
         [] OTHER -> a

\* poll_event when recv raises websockets' ConnectionClosed with the code
\* the socket was closed with.
poll_closed(g) ==
    IF can_handle_close(g.code)
    THEN GwRaise(g, "ResumeWebSocket", ShardId)
    ELSE GwRaise(g, "ConnectionClosed", ShardId)

\* DiscordWebSocket.from_client: a new socket object; the session and the
\* sequence are handed over for a resume; the first poll_event takes the
\* HELLO, then IDENTIFY or RESUME is sent.
from_client(g, with_resume) ==
    LET ws == [g EXCEPT !.status = "open", !.code = 0,
                        !.listeners = << >>, !.keep_alive = 1,
                        !.drivers = [i \in 1 .. MaxDrivers |->
                                        IF i = 1 THEN NewDriver ELSE NoDriver],
                        !.session_id = IF with_resume THEN @ ELSE None,
                        !.sequence = IF with_resume THEN @ ELSE None]
    IN IF with_resume THEN send_resume(ws) ELSE identify(ws)

(***************************************************************************)
(* VoiceClient.play_audio and StreamPlayer                                 *)
(***************************************************************************)
\* encoder.samples_per_frame of OpusEncoder(48000, 2) with 20 ms frames.
SamplesPerFrame == 960
\* The limits play_audio hands to checked_add: 65535 for the sequence and
\* 4294967295 for the timestamp.  A timestamp is held as two 16-bit halves,
\* hi * 65536 + lo, and its limit is the timestamp of two halves HalfLimit.
HalfLimit == 65535

Timestamp(hi, lo) == [hi |-> hi, lo |-> lo]

\* val + value of a timestamp, as an unbounded integer in halves.
WideSum(val, value) ==
    LET sum == val.lo + value
    IN Timestamp(val.hi + (sum \div (HalfLimit + 1)), sum % (HalfLimit + 1))

\* checked_add keeping the sum on the way past the limit.
checked_add_NoReset(val, value, limit) == val + value

\* VoiceClient.checked_add
checked_add(val, value, limit) ==
    IF val + value > limit THEN 0 ELSE val + value

\* VoiceClient.checked_add on the timestamp with limit 4294967295
checked_add_timestamp(val, value) ==
    LET sum == WideSum(val, value)
    IN IF sum.hi > HalfLimit THEN Timestamp(0, 0) ELSE sum

\* The counters of a VoiceClient after n frames: fresh, before the wrap of
\* the sequence, and before the wrap of the timestamp.
StartCounters ==
    { [sequence |-> 0, timestamp |-> Timestamp(0, 0)],
      [sequence |-> 65534, timestamp |-> Timestamp(959, 63616)],
      [sequence |-> 17475, timestamp |-> Timestamp(65535, 64320)] }

\* No player created yet.  stops counts the user's calls of stop() and
\* interrupted notes that the player was paused and resumed.
NoPlayer ==
    [thread |-> "none", pc |-> "none",
     end |-> FALSE, resumed |-> FALSE, connected |-> FALSE,
     frames |-> 0, pos |-> 0, data |-> 0, sent |-> << >>,
     after_raises |-> FALSE, after_calls |-> 0, escaped |-> FALSE,
     stops |-> 0, interrupted |-> FALSE,
     sequence |-> 0, timestamp |-> Timestamp(0, 0),
     packets |-> << >>]

\* create_stream_player / StreamPlayer.__init__ on a connected client: a
\* stream of so many whole frames, a finalizer, the client's counters.
StreamPlayer(frames, after_raises, counters) ==
    [NoPlayer EXCEPT !.thread = "created", !.resumed = TRUE,
                     !.connected = TRUE, !.frames = frames,
                     !.after_raises = after_raises,
                     !.sequence = counters.sequence,
                     !.timestamp = counters.timestamp]

\* _get_voice_packet: the header fields the counters give.
Header(p) == [sequence |-> p.sequence, timestamp |-> p.timestamp]

\* VoiceClient.play_audio
play_audio(p, data) ==
    LET a == [p EXCEPT !.sequence = checked_add(@, 1, HalfLimit)]
        b == [a EXCEPT !.packets = Append(@, Header(a)),
                       !.sent = Append(@, data)]
    IN [b EXCEPT !.timestamp = checked_add_timestamp(@, SamplesPerFrame)]

\* stop() calling the finalizer outside its try.
player_stop_Unguarded(p) ==
    [p EXCEPT !.end = TRUE, !.after_calls = @ + 1,
              !.escaped = @ \/ p.after_raises]

\* StreamPlayer.stop: the finalizer's exceptions are dropped.
player_stop(p) == [p EXCEPT !.end = TRUE, !.after_calls = @ + 1]

\* StreamPlayer.pause
player_pause(p) == [p EXCEPT !.resumed = FALSE]

\* resume() rewinding the stream by a frame.
player_resume_Rewinds(p) ==
    [p EXCEPT !.resumed = TRUE, !.pos = IF @ > 0 THEN @ - 1 ELSE @]

\* StreamPlayer.resume; loops and _start only pace the frames.
player_resume(p) == [p EXCEPT !.resumed = TRUE]

\* run: the loop condition, then the test of the resumed flag.
run_loop(p) ==
    IF p.end THEN [p EXCEPT !.thread = "finished", !.pc = "none"]
    ELSE IF ~p.resumed THEN [p EXCEPT !.pc = "wait"]
    ELSE [p EXCEPT !.pc = "check"]

\* run: the test of the connected flag.
run_check(p) ==
    IF ~p.connected
    THEN [player_stop(p) EXCEPT !.thread = "finished", !.pc = "none"]
    ELSE [p EXCEPT !.pc = "read"]

\* run: buff.read(frame_size); a read past the whole frames is short.
run_read(p) ==
    IF p.pos >= p.frames
    THEN [player_stop(p) EXCEPT !.thread = "finished", !.pc = "none"]
    ELSE [p EXCEPT !.pos = @ + 1, !.data = p.pos + 1, !.pc = "play"]

\* run: self.player(data), then the sleep until the next frame is due.
run_play(p) == [play_audio(p, p.data) EXCEPT !.pc = "loop"]

(***************************************************************************)
(* initial_connection: UDP discovery                                       *)
(***************************************************************************)
\* The length of the discovery request and of the reply read.
PacketLength == 70

Zeros(n) == [i \in 1 .. n |-> 0]

\* struct.pack('>I', n): four bytes, most significant first.
PackBigEndian32(n) ==
    << n \div 16777216, (n \div 65536) % 256, (n \div 256) % 256, n % 256 >>

\* bytearray(70) with the ssrc packed at offset 0
DiscoveryRequest(ssrc) == PackBigEndian32(ssrc) \o Zeros(PacketLength - 4)

\* The characters of an IPv4 address and their ASCII codes.
Digits == << "0", "1", "2", "3", "4", "5", "6", "7", "8", "9" >>

AsciiCode(c) ==
    IF c = "." THEN 46
    ELSE 47 + (CHOOSE d \in 1 .. 10 : Digits[d] = c)

\* bytes.decode('ascii') of one byte of an address
AsciiChar(b) == IF b = 46 THEN "." ELSE Digits[b - 47]

\* The reply the voice server sends: four bytes, the address in ASCII and
\* NUL bytes up to the port, which is stored least significant byte first.
DiscoveryReply(ssrc, ip, port) ==
    PackBigEndian32(ssrc)
        \o [i \in 1 .. Len(ip) |-> AsciiCode(ip[i])]
        \o Zeros(PacketLength - 4 - Len(ip) - 2)
        \o << port % 256, port \div 256 >>

\* The port read with the most significant byte first.
DiscoveredPort_BigEndian(recv) == recv[Len(recv) - 1] * 256 + recv[Len(recv)]

\* recv.index(0, ip_start) with ip_start = 4, as a position counted from 1
IpEnd(recv) ==
    CHOOSE i \in 5 .. Len(recv) :
        recv[i] = 0 /\ \A j \in 5 .. (i - 1) : recv[j] # 0

\* recv[ip_start:ip_end].decode('ascii')
DiscoveredIp(recv) ==
    LET bytes == SubSeq(recv, 5, IpEnd(recv) - 1)
    IN [i \in 1 .. Len(bytes) |-> AsciiChar(bytes[i])]

\* struct.unpack_from('<H', recv, len(recv) - 2)[0]
DiscoveredPort(recv) == recv[Len(recv) - 1] + 256 * recv[Len(recv)]

\* The ssrc values, addresses and ports discovery is run with.
Ssrcs == {1, 16909060, 2147483647}

Addresses ==
    { << "1", ".", "2", ".", "3", ".", "4" >>,
      << "0", ".", "0", ".", "0", ".", "0" >>,
      << "1", "0", ".", "0", ".", "0", ".", "1" >>,
      << "1", "9", "2", ".", "1", "6", "8", ".", "1", ".", "1", "0" >>,
      << "2", "5", "5", ".", "2", "5", "5", ".", "2", "5", "5", ".",
         "2", "5", "5" >> }

Ports == {0, 1, 255, 256, 443, 48879, 65280, 65535}

\* No discovery run yet.
NoDiscovery ==
    [done |-> FALSE, ssrc |-> 0, sent_ip |-> << >>, sent_port |-> 0,
     request |-> << >>, reply |-> << >>, ip |-> << >>, port |-> 0]

\* initial_connection: the request sent for the ssrc of READY, the reply
\* and the address and port read from it.
initial_connection(ssrc, ip, port) ==
    LET recv == DiscoveryReply(ssrc, ip, port)
    IN [done |-> TRUE, ssrc |-> ssrc, sent_ip |-> ip, sent_port |-> port,
        request |-> DiscoveryRequest(ssrc), reply |-> recv,
        ip |-> DiscoveredIp(recv), port |-> DiscoveredPort(recv)]

(***************************************************************************)
(* State                                                                   *)
(***************************************************************************)
VARIABLES
    vcs,    \* the VoiceConnectionState object, its tasks and its reader
    last,   \* the step taken last and its input
    obs,    \* what an observer of the run has noted (history)
    gw,     \* the DiscordWebSocket object, its listeners and their futures
    pl,     \* a StreamPlayer, its stream and the VoiceClient it plays through
    udp     \* the last UDP discovery: request, reply and what was read from it

vars == <<vcs, last, obs, gw, pl, udp>>

\* The object at the start of a step: nothing done to the outside yet.
R == [vcs EXCEPT !.eff = NoEffect]

\* A step, its input and the flow state it started in.
Step(op, arg) == [op |-> op, arg |-> arg, from |-> vcs.state]

(***************************************************************************)
(* The observer                                                            *)
(***************************************************************************)
\* The observer follows two episodes.
\*  - A run of deliveries: it starts when the connector leaves disconnected
\*    for set_guild_voice_state and lasts while nothing but the two
\*    control-plane events happens and the flow state is not back at
\*    disconnected.  any holds the kinds of event delivered so far, eff the
\*    kinds delivered with a payload the handler acts on (a channel id, and
\*    both a token and an endpoint).
\*  - A potential reconnect: from the step in which the poller sees close
\*    code 4014 until the poller is back in its loop or has ended.  pr is
\*    "clean" while no leave was sent and the cleanup hook was not called.
\*  - An undisturbed connect: from the step in which the connector leaves
\*    disconnected, while the only steps are deliveries and the connector's
\*    own progress until it is done, nothing raises, the flow state does
\*    not fall back to disconnected and SESSION_DESCRIPTION does not
\*    overtake READY.  path is the sequence of flow states entered so far,
\*    empty outside the episode.
NoEpisode ==
    [open |-> FALSE, any |-> {}, eff |-> {}, pr |-> "none", path |-> << >>,
     track |-> FALSE, owed |-> 0]

Deliveries == {"voice_state_update", "voice_server_update"}

Kind(step) == IF step.op = "voice_state_update" THEN "state" ELSE "server"

Effective(step) ==
    IF step.op = "voice_state_update"
    THEN step.arg.channel_id # None
    ELSE step.arg.token # None /\ step.arg.endpoint # EndpointNone

HandshakePcs == {"hs_ip", "hs_key"}
PotentialPcs == {"pr_wait", "pr_ws_connect"} \cup HandshakePcs

ObservedRun ==
    IF /\ last'.op \in {"ConnectorStart", "ConnectorSleepDone"}
       /\ vcs.state = disconnected
       /\ vcs'.state = set_guild_voice_state
    THEN [open |-> TRUE, any |-> {}, eff |-> {}]
    ELSE IF obs.open /\ last'.op \in Deliveries /\ vcs'.state # disconnected
    THEN [open |-> TRUE,
          any |-> obs.any \cup {Kind(last')},
          eff |-> IF Effective(last') THEN obs.eff \cup {Kind(last')} ELSE obs.eff]
    ELSE [open |-> FALSE, any |-> {}, eff |-> {}]

ObservedPotential ==
    IF last'.op = "RunnerClosed" /\ last'.arg = 4014 /\ vcs'.runner.status = "running"
    THEN "clean"
    ELSE IF ~(vcs.runner.status = "running" /\ vcs.runner.pc \in PotentialPcs)
    THEN "none"
    ELSE IF vcs'.eff.leave > 0 \/ vcs'.eff.cleanup > 0
    THEN "dirty"
    ELSE obs.pr

\* The connector's steps of an attempt in which nothing goes wrong.
ProgressOps ==
    {"ConnectorGotBoth", "ConnectorWsOpen", "ConnectorReady",
     "ConnectorSessionDescription"}

ObservedPath ==
    IF /\ last'.op \in {"ConnectorStart", "ConnectorSleepDone"}
       /\ vcs.state = disconnected
       /\ vcs'.state = set_guild_voice_state
    THEN <<set_guild_voice_state>>
    ELSE IF \/ obs.path = << >>
            \/ vcs.connector.status # "running"
            \/ last'.op \notin Deliveries \cup ProgressOps
            \/ vcs'.eff.exc # "none"
            \/ vcs'.state = disconnected
            \/ (last'.op = "ConnectorSessionDescription" /\ vcs.connector.pc = "hs_ip")
    THEN << >>
    ELSE IF vcs'.state = vcs.state THEN obs.path
    ELSE Append(obs.path, vcs'.state)

\* The leaves the supervisor has sent that the control plane is still to
\* answer, counted where the answers are tracked: every leave sent adds
\* one, and a null-channel voice_state_update delivered while a leave is
\* unanswered is the answer to the oldest one.  The control plane answers
\* no leave sent while MaxOwed leaves are unanswered.
ObservedOwed ==
    IF ~obs.track THEN 0
    ELSE LET answered ==
                 IF /\ last'.op = "voice_state_update"
                    /\ last'.arg.channel_id = None
                    /\ obs.owed > 0
                 THEN 1 ELSE 0
             owed == obs.owed - answered + vcs'.eff.leave
         IN IF owed > MaxOwed THEN MaxOwed ELSE owed

Observe ==
    obs' = [open |-> ObservedRun.open, any |-> ObservedRun.any,
            eff |-> ObservedRun.eff, pr |-> ObservedPotential,
            path |-> ObservedPath,
            track |-> obs.track, owed |-> ObservedOwed]

Init ==
    /\ vcs = InitialState
    /\ obs = NoEpisode
    /\ last = [op |-> "init", arg |-> 0, from |-> disconnected]
    /\ gw = GatewayInitial
    /\ pl = NoPlayer
    /\ udp = NoDiscovery

(***************************************************************************)
(* Actions: the owner and the control plane                                *)
(***************************************************************************)
\* The voice client starts the first connect.
UserConnect(reconnect, resume) ==
    /\ vcs.connector.status = "MISSING"
    /\ vcs' = Connect(R, reconnect, resume)
    /\ last' = Step("connect", 0)
    /\ Observe
    /\ UNCHANGED <<gw, pl, udp>>

\* The gateway delivers VOICE_STATE_UPDATE.
VoiceStateUpdate(data) ==
    /\ vcs' = voice_state_update(R, data)
    /\ last' = Step("voice_state_update", data)
    /\ Observe
    /\ UNCHANGED <<gw, pl, udp>>

\* The gateway delivers VOICE_SERVER_UPDATE.
VoiceServerUpdate(data) ==
    /\ vcs' = voice_server_update(R, data)
    /\ last' = Step("voice_server_update", data)
    /\ Observe
    /\ UNCHANGED <<gw, pl, udp>>

(***************************************************************************)
(* Actions: the connector                                                  *)
(***************************************************************************)
ConnectorAt(pcs) ==
    vcs.connector.status = "running" /\ vcs.connector.pc \in pcs

\* The connector task runs its first attempt.
ConnectorStart ==
    /\ ConnectorAt({"start"})
    /\ vcs' = BeginAttempt(R)
    /\ last' = Step("ConnectorStart", 0)
    /\ Observe
    /\ UNCHANGED <<gw, pl, udp>>

\* _wait_for_state(got_both_voice_updates) returns.
ConnectorGotBoth ==
    /\ ConnectorAt({"wait_both"})
    /\ vcs.state = got_both_voice_updates
    /\ vcs' = [R EXCEPT !.connector.pc = "ws_connect"]
    /\ last' = Step("ConnectorGotBoth", 0)
    /\ Observe
    /\ UNCHANGED <<gw, pl, udp>>

\* _wait_for_state times out: disconnect and raise.
ConnectorWaitTimeout ==
    /\ ConnectorAt({"wait_both"})
    /\ vcs.state # got_both_voice_updates
    /\ vcs' = ConnectRaised(Disconnect(R, TRUE))
    /\ last' = Step("ConnectorWaitTimeout", 0)
    /\ Observe
    /\ UNCHANGED <<gw, pl, udp>>

\* The task t is done with a step of the handshake.
ConnectorAdvance(s) ==
    LET a == Handshake(s, "connector")
    IN IF a.connector.pc = "hs_done" THEN ConnectEnd(a) ELSE a

\* The signaling WebSocket opens.
ConnectorWsOpen ==
    /\ ConnectorAt({"ws_connect"})
    /\ vcs' = ConnectorAdvance([ConnectWebsocket(R) EXCEPT !.connector.pc = "hs_ip"])
    /\ last' = Step("ConnectorWsOpen", 0)
    /\ Observe
    /\ UNCHANGED <<gw, pl, udp>>

\* Opening the signaling WebSocket fails or runs into the timeout.
ConnectorWsOpenFail ==
    /\ ConnectorAt({"ws_connect"})
    /\ vcs' = AttemptFailed(R)
    /\ last' = Step("ConnectorWsOpenFail", 0)
    /\ Observe
    /\ UNCHANGED <<gw, pl, udp>>

\* poll_event hands READY to the connector.
ConnectorReady ==
    /\ ConnectorAt(HandshakePcs)
    /\ vcs.ws.status = "open"
    /\ LET a == InitialConnection(R)
       IN vcs' = IF Raised(a) THEN ConnectRaised(a) ELSE ConnectorAdvance(a)
    /\ last' = Step("ConnectorReady", 0)
    /\ Observe
    /\ UNCHANGED <<gw, pl, udp>>

\* poll_event hands SESSION_DESCRIPTION to the connector.
ConnectorSessionDescription ==
    /\ ConnectorAt(HandshakePcs)
    /\ vcs.ws.status = "open"
    /\ vcs' = ConnectorAdvance(LoadSecretKey(R))
    /\ last' = Step("ConnectorSessionDescription", 0)
    /\ Observe
    /\ UNCHANGED <<gw, pl, udp>>

\* poll_event raises ConnectionClosed in the connector.
ConnectorClosed(code) ==
    /\ ConnectorAt(HandshakePcs)
    /\ \/ vcs.ws.status = "open" /\ vcs' = AttemptFailed(RemoteClose(R, code))
       \/ vcs.ws.status = "closed" /\ code = vcs.ws.code /\ vcs' = AttemptFailed(R)
    /\ last' = Step("ConnectorClosed", code)
    /\ Observe
    /\ UNCHANGED <<gw, pl, udp>>

\* The handshake runs into the timeout.
ConnectorTimeout ==
    /\ ConnectorAt(HandshakePcs)
    /\ vcs.ws.status = "open"
    /\ vcs' = AttemptFailed(R)
    /\ last' = Step("ConnectorTimeout", 0)
    /\ Observe
    /\ UNCHANGED <<gw, pl, udp>>

\* The sleep after a failed attempt ends: the next attempt, or the end of
\* the loop.
ConnectorSleepDone ==
    /\ ConnectorAt({"sleep"})
    /\ vcs' = IF vcs.connector.i + 1 < MaxAttempts
              THEN BeginAttempt([R EXCEPT !.connector.i = @ + 1])
              ELSE ConnectEnd(R)
    /\ last' = Step("ConnectorSleepDone", 0)
    /\ Observe
    /\ UNCHANGED <<gw, pl, udp>>

\* The places where the connector is suspended inside _connect.
ConnectorSuspended == {"wait_both", "ws_connect", "sleep"} \cup HandshakePcs

\* The connector task is cancelled while suspended (the task that awaits
\* connect() is cancelled, or the loop shuts down): CancelledError is raised
\* inside _connect and caught by _wrap_connect.
ConnectorCancelled ==
    /\ ConnectorAt(ConnectorSuspended)
    /\ vcs' = ConnectCancelled(R)
    /\ last' = Step("ConnectorCancelled", 0)
    /\ Observe
    /\ UNCHANGED <<gw, pl, udp>>

(***************************************************************************)
(* Actions: the poller                                                     *)
(***************************************************************************)
RunnerAt(pcs) ==
    vcs.runner.status = "running" /\ vcs.runner.pc \in pcs

\* self.ws is still MISSING: self.ws.poll_event fails.
RunnerNoWs ==
    /\ RunnerAt({"poll"})
    /\ vcs.ws.status = "MISSING"
    /\ vcs' = [Raise(R, "AttributeError") EXCEPT !.runner.status = "failed",
                                                 !.runner.pc = "poll_error"]
    /\ last' = Step("RunnerNoWs", 0)
    /\ Observe
    /\ UNCHANGED <<gw, pl, udp>>

\* poll_event raises ConnectionClosed in the poller's loop.
RunnerClosed(code) ==
    /\ RunnerAt({"poll"})
    /\ \/ vcs.ws.status = "open" /\ vcs' = PollClosed(RemoteClose(R, code), code)
       \/ vcs.ws.status = "closed" /\ code = vcs.ws.code /\ vcs' = PollClosed(R, code)
    /\ last' = Step("RunnerClosed", code)
    /\ Observe
    /\ UNCHANGED <<gw, pl, udp>>

\* poll_event times out in the poller's loop.
RunnerTimeout ==
    /\ RunnerAt({"poll"})
    /\ vcs.ws.status = "open"
    /\ vcs' = ReconnectOrRaise(R)
    /\ last' = Step("RunnerTimeout", 0)
    /\ Observe
    /\ UNCHANGED <<gw, pl, udp>>

\* The backoff sleep ends: disconnect(cleanup=False), then the short sleep.
RunnerBackoffDone ==
    /\ RunnerAt({"backoff"})
    /\ vcs' = [Disconnect(R, FALSE) EXCEPT !.runner.pc = "racy_sleep"]
    /\ last' = Step("RunnerBackoffDone", 0)
    /\ Observe
    /\ UNCHANGED <<gw, pl, udp>>

\* The short sleep ends: the poller calls connect().
RunnerReconnect ==
    /\ RunnerAt({"racy_sleep"})
    /\ vcs' = PollerConnect(R)
    /\ last' = Step("RunnerReconnect", 0)
    /\ Observe
    /\ UNCHANGED <<gw, pl, udp>>

\* _potential_reconnect: _wait_for_state returns.
RunnerPotentialWake ==
    /\ RunnerAt({"pr_wait"})
    /\ vcs.state \in PotentialStates
    /\ vcs' = [R EXCEPT !.runner.pc = "pr_ws_connect"]
    /\ last' = Step("RunnerPotentialWake", 0)
    /\ Observe
    /\ UNCHANGED <<gw, pl, udp>>

\* _potential_reconnect: _wait_for_state times out.
RunnerPotentialTimeout ==
    /\ RunnerAt({"pr_wait"})
    /\ vcs.state \notin PotentialStates
    /\ vcs' = PotentialFailed(R)
    /\ last' = Step("RunnerPotentialTimeout", 0)
    /\ Observe
    /\ UNCHANGED <<gw, pl, udp>>

RunnerAdvance(s) ==
    LET a == Handshake(s, "runner")
    IN IF a.runner.pc = "hs_done" THEN [a EXCEPT !.runner.pc = "poll"] ELSE a

\* _potential_reconnect: the new signaling WebSocket opens.
RunnerWsOpen ==
    /\ RunnerAt({"pr_ws_connect"})
    /\ vcs' = RunnerAdvance([ConnectWebsocket(R) EXCEPT !.runner.pc = "hs_ip"])
    /\ last' = Step("RunnerWsOpen", 0)
    /\ Observe
    /\ UNCHANGED <<gw, pl, udp>>

\* _potential_reconnect: opening the WebSocket fails.
RunnerWsOpenFail ==
    /\ RunnerAt({"pr_ws_connect"})
    /\ vcs' = PotentialFailed(R)
    /\ last' = Step("RunnerWsOpenFail", 0)
    /\ Observe
    /\ UNCHANGED <<gw, pl, udp>>

\* _potential_reconnect: poll_event hands READY to the poller.  An error of
\* the discovery is no ConnectionClosed: it ends the poller task.
RunnerReady ==
    /\ RunnerAt(HandshakePcs)
    /\ vcs.ws.status = "open"
    /\ LET a == InitialConnection(R)
       IN vcs' = IF Raised(a)
                 THEN [a EXCEPT !.runner.status = "failed", !.runner.pc = "raised"]
                 ELSE RunnerAdvance(a)
    /\ last' = Step("RunnerReady", 0)
    /\ Observe
    /\ UNCHANGED <<gw, pl, udp>>

\* _potential_reconnect: poll_event hands SESSION_DESCRIPTION to the poller.
RunnerSessionDescription ==
    /\ RunnerAt(HandshakePcs)
    /\ vcs.ws.status = "open"
    /\ vcs' = RunnerAdvance(LoadSecretKey(R))
    /\ last' = Step("RunnerSessionDescription", 0)
    /\ Observe
    /\ UNCHANGED <<gw, pl, udp>>

\* _potential_reconnect: the handshake sees ConnectionClosed.
RunnerHandshakeClosed(code) ==
    /\ RunnerAt(HandshakePcs)
    /\ \/ vcs.ws.status = "open" /\ vcs' = PotentialFailed(RemoteClose(R, code))
       \/ vcs.ws.status = "closed" /\ code = vcs.ws.code /\ vcs' = PotentialFailed(R)
    /\ last' = Step("RunnerHandshakeClosed", code)
    /\ Observe
    /\ UNCHANGED <<gw, pl, udp>>

\* _potential_reconnect: a poll of the handshake times out.
RunnerHandshakeTimeout ==
    /\ RunnerAt(HandshakePcs)
    /\ vcs.ws.status = "open"
    /\ vcs' = PotentialFailed(R)
    /\ last' = Step("RunnerHandshakeTimeout", 0)
    /\ Observe
    /\ UNCHANGED <<gw, pl, udp>>

(***************************************************************************)
(* Specification                                                           *)
(***************************************************************************)
Next ==
    \/ \E reconnect \in BOOLEAN, resume \in BOOLEAN : UserConnect(reconnect, resume)
    \/ \E data \in VoiceStatePayloads : VoiceStateUpdate(data)
    \/ \E data \in VoiceServerPayloads : VoiceServerUpdate(data)
    \/ ConnectorStart
    \/ ConnectorGotBoth
    \/ ConnectorWaitTimeout
    \/ ConnectorWsOpen
    \/ ConnectorWsOpenFail
    \/ ConnectorReady
    \/ ConnectorSessionDescription
    \/ \E code \in CloseCodes : ConnectorClosed(code)
    \/ ConnectorTimeout
    \/ ConnectorSleepDone
    \/ ConnectorCancelled
    \/ RunnerNoWs
    \/ \E code \in CloseCodes : RunnerClosed(code)
    \/ RunnerTimeout
    \/ RunnerBackoffDone
    \/ RunnerReconnect
    \/ RunnerPotentialWake
    \/ RunnerPotentialTimeout
    \/ RunnerWsOpen
    \/ RunnerWsOpenFail
    \/ RunnerReady
    \/ RunnerSessionDescription
    \/ \E code \in CloseCodes : RunnerHandshakeClosed(code)
    \/ RunnerHandshakeTimeout

Spec == Init /\ [][Next]_vars

\* connect() called again by the owner while a connector runs.  The wake-up
\* of the cancelled connector is queued by cancel() before the new task is
\* created and waits for nothing outside the loop, so its handler runs
\* before anything reaches the supervisor from outside: a delivery, a frame
\* or a close of the WebSocket, or a timer.  The new connector may take its
\* steps that wait for nothing before it.
OwnerReconnect(reconnect, resume) ==
    /\ vcs.connector.status = "running"
    /\ ~vcs.replaced
    /\ vcs' = Connect(R, reconnect, resume)
    /\ last' = Step("connect", 1)
    /\ Observe
    /\ UNCHANGED <<gw, pl, udp>>

\* The replaced connector handles its CancelledError.
OldConnectorCancelled ==
    /\ vcs.replaced
    /\ vcs' = ReplacedCancelled(R)
    /\ last' = Step("OldConnectorCancelled", 0)
    /\ Observe
    /\ UNCHANGED <<gw, pl, udp>>

\* The steps that wait for something outside the loop.
LaterStateUpdate(data) == ~vcs.replaced /\ VoiceStateUpdate(data)
LaterServerUpdate(data) == ~vcs.replaced /\ VoiceServerUpdate(data)
LaterWaitTimeout == ~vcs.replaced /\ ConnectorWaitTimeout
LaterWsOpen == ~vcs.replaced /\ ConnectorWsOpen
LaterWsOpenFail == ~vcs.replaced /\ ConnectorWsOpenFail
LaterReady == ~vcs.replaced /\ ConnectorReady
LaterSessionDescription == ~vcs.replaced /\ ConnectorSessionDescription
LaterClosed(code) == ~vcs.replaced /\ ConnectorClosed(code)
LaterTimeout == ~vcs.replaced /\ ConnectorTimeout
LaterSleepDone == ~vcs.replaced /\ ConnectorSleepDone

\* resume is handed on to the WebSocket and nothing here depends on it, nor
\* on the code a failed handshake was closed with.
ReplaceNext ==
    \/ \E reconnect \in BOOLEAN : UserConnect(reconnect, FALSE)
    \/ \E reconnect \in BOOLEAN : OwnerReconnect(reconnect, FALSE)
    \/ OldConnectorCancelled
    \/ \E data \in VoiceStatePayloads : LaterStateUpdate(data)
    \/ \E data \in VoiceServerPayloads : LaterServerUpdate(data)
    \/ ConnectorStart
    \/ ConnectorGotBoth
    \/ LaterWaitTimeout
    \/ LaterWsOpen
    \/ LaterWsOpenFail
    \/ LaterReady
    \/ LaterSessionDescription
    \/ LaterClosed(1006)
    \/ LaterTimeout
    \/ LaterSleepDone

ReplaceSpec == Init /\ [][ReplaceNext]_vars

\* The supervisor with the answers to its leaves tracked: the control plane
\* sends a null-channel voice_state_update only in answer to a leave of the
\* supervisor, one for each leave, at any later time.
LeaveInit ==
    /\ vcs = InitialState
    /\ obs = [NoEpisode EXCEPT !.track = TRUE]
    /\ last = [op |-> "init", arg |-> 0, from |-> disconnected]
    /\ gw = GatewayInitial
    /\ pl = NoPlayer
    /\ udp = NoDiscovery

\* A delivery of VOICE_STATE_UPDATE: with a channel, or the answer to a
\* leave.
LeaveAnswered(data) ==
    /\ data.channel_id = None => obs.owed > 0
    /\ VoiceStateUpdate(data)

LeaveNext ==
    \/ \E reconnect \in BOOLEAN, resume \in BOOLEAN : UserConnect(reconnect, resume)
    \/ \E data \in VoiceStatePayloads : LeaveAnswered(data)
    \/ \E data \in VoiceServerPayloads : VoiceServerUpdate(data)
    \/ ConnectorStart
    \/ ConnectorGotBoth
    \/ ConnectorWaitTimeout
    \/ ConnectorWsOpen
    \/ ConnectorWsOpenFail
    \/ ConnectorReady
    \/ ConnectorSessionDescription
    \/ \E code \in CloseCodes : ConnectorClosed(code)
    \/ ConnectorTimeout
    \/ ConnectorSleepDone
    \/ ConnectorCancelled
    \/ RunnerNoWs
    \/ \E code \in CloseCodes : RunnerClosed(code)
    \/ RunnerTimeout
    \/ RunnerBackoffDone
    \/ RunnerReconnect
    \/ RunnerPotentialWake
    \/ RunnerPotentialTimeout
    \/ RunnerWsOpen
    \/ RunnerWsOpenFail
    \/ RunnerReady
    \/ RunnerSessionDescription
    \/ \E code \in CloseCodes : RunnerHandshakeClosed(code)
    \/ RunnerHandshakeTimeout

LeaveSpec == LeaveInit /\ [][LeaveNext]_vars

\* The connect flow up to connected with voice_server_update delivered for
\* endpoints with and without a port.
EndpointPayloads ==
    [token : {1, None}, guild_id : {GuildId},
     endpoint : RawEndpoints \cup PortlessEndpoints \cup {EndpointNone}]

EndpointNext ==
    \/ \E reconnect \in BOOLEAN, resume \in BOOLEAN : UserConnect(reconnect, resume)
    \/ \E data \in VoiceStatePayloads : VoiceStateUpdate(data)
    \/ \E data \in EndpointPayloads : VoiceServerUpdate(data)
    \/ ConnectorStart
    \/ ConnectorGotBoth
    \/ ConnectorWsOpen
    \/ ConnectorReady
    \/ ConnectorSessionDescription

EndpointSpec == Init /\ [][EndpointNext]_vars

(***************************************************************************)
(* Actions: the gateway socket                                             *)
(***************************************************************************)
\* The socket at the start of a step: nothing sent or raised yet.
Rg == [gw EXCEPT !.sent = << >>, !.exc = NoExc]

GwStep(op, arg) == [op |-> op, arg |-> arg, from |-> disconnected]

Larger(a, b) == IF a >= b THEN a ELSE b

\* What the observer notes of a received frame.
Noted(g, msg) ==
    LET h == gw.hist
        seen == IF msg.s = None THEN h
                ELSE IF msg.t \in {"READY", "RESUMED"}
                THEN [h EXCEPT !.maxseen = msg.s, !.ordered = TRUE]
                ELSE [h EXCEPT !.maxseen = Larger(@, msg.s),
                               !.ordered = @ /\ msg.s >= h.maxseen]
        cleared == IF msg.op = INVALIDATE_SESSION /\ msg.d = 0
                   THEN [seen EXCEPT !.maxseen = None, !.ordered = TRUE]
                   ELSE seen
    IN [g EXCEPT !.hist = [cleared EXCEPT !.aborted =
                               @ \/ g.exc.type = "ProjectorError"]]

\* poll_event: recv returns a frame.
GwPollFrame(msg) ==
    /\ gw.status = "open"
    /\ msg.op = HELLO => \E i \in 1 .. MaxDrivers : gw.drivers[i].thread = "none"
    /\ gw' = Noted(received_message(Rg, msg), msg)
    /\ last' = GwStep("poll_event", msg)
    /\ UNCHANGED <<vcs, obs, pl, udp>>

\* poll_event: recv raises, the socket is closed.
GwPollClosed ==
    /\ gw.status = "closed"
    /\ gw' = poll_closed(Rg)
    /\ last' = GwStep("poll_closed", gw.code)
    /\ UNCHANGED <<vcs, obs, pl, udp>>

\* The peer or the network closes the socket with a code.
GwRemoteClose(code) ==
    /\ gw.status = "open"
    /\ gw' = close_connection([Rg EXCEPT !.status = "closed", !.code = code])
    /\ last' = GwStep("remote_close", code)
    /\ UNCHANGED <<vcs, obs, pl, udp>>

\* One of the send operations is called.
GwSend(name) ==
    /\ gw' = SendOp(Rg, name)
    /\ last' = GwStep(name, 0)
    /\ UNCHANGED <<vcs, obs, pl, udp>>

\* A caller registers a listener.
GwWaitFor(event, predicate, result) ==
    /\ \E f \in 1 .. MaxFutures : gw.futs[f] = "none"
    /\ gw' = wait_for(Rg, event, predicate, result)
    /\ last' = GwStep("wait_for", 0)
    /\ UNCHANGED <<vcs, obs, pl, udp>>

\* A caller cancels a future it was handed.
GwCancel(future) ==
    /\ gw.futs[future] # "none"
    /\ gw' = cancel(Rg, future)
    /\ last' = GwStep("cancel", future)
    /\ UNCHANGED <<vcs, obs, pl, udp>>

\* The client replaces the closed socket.
GwFromClient(with_resume) ==
    /\ gw.status = "closed"
    /\ gw' = LET ws == from_client(Rg, with_resume)
             IN IF with_resume THEN ws
                ELSE [ws EXCEPT !.hist.maxseen = None, !.hist.ordered = TRUE]
    /\ last' = GwStep("from_client", IF with_resume THEN 1 ELSE 0)
    /\ UNCHANGED <<vcs, obs, pl, udp>>

\* A driver's wait(interval) times out.
GwDriverWake(i) ==
    /\ Beating(gw.drivers[i])
    /\ gw.drivers[i].pc = "wait"
    /\ gw.drivers[i].until_wake = 0
    /\ gw' = driver_wake(Rg, i)
    /\ last' = GwStep("driver_wake", i)
    /\ UNCHANGED <<vcs, obs, pl, udp>>

\* The event loop runs the close a driver handed to it.
GwDriverClose(i) ==
    /\ gw.drivers[i].pc = "close"
    /\ gw' = driver_close(Rg, i)
    /\ last' = GwStep("driver_close", i)
    /\ UNCHANGED <<vcs, obs, pl, udp>>

\* The event loop runs the heartbeat a driver handed to it.
GwDriverSend(i) ==
    /\ gw.drivers[i].pc = "send"
    /\ gw' = driver_send(Rg, i)
    /\ last' = GwStep("driver_send", i)
    /\ UNCHANGED <<vcs, obs, pl, udp>>

\* A stopped driver's wait returns and its thread ends.
GwDriverExit(i) ==
    /\ gw.drivers[i].thread = "running"
    /\ gw.drivers[i].pc = "wait"
    /\ gw.drivers[i].stop_ev
    /\ gw' = driver_exit(Rg, i)
    /\ last' = GwStep("driver_exit", i)
    /\ UNCHANGED <<vcs, obs, pl, udp>>

\* The clock advances by one tick; no wait is overslept, and the event
\* loop runs what a driver handed to it before time passes.
GwTick ==
    /\ \E i \in 1 .. MaxDrivers : Beating(gw.drivers[i])
    /\ \A i \in 1 .. MaxDrivers :
           Beating(gw.drivers[i]) =>
               gw.drivers[i].pc = "wait" /\ gw.drivers[i].until_wake > 0
    /\ gw' = [Rg EXCEPT !.drivers = [i \in 1 .. MaxDrivers |-> Aged(@[i])]]
    /\ last' = GwStep("tick", 0)
    /\ UNCHANGED <<vcs, obs, pl, udp>>

\* The socket: frames, closes, sends and the socket's replacement.
GatewayNext ==
    \/ \E msg \in Frames : GwPollFrame(msg)
    \/ GwPollClosed
    \/ \E code \in GatewayCloseCodes : GwRemoteClose(code)
    \/ \E name \in SendOps : GwSend(name)
    \/ \E with_resume \in BOOLEAN : GwFromClient(with_resume)

GatewaySpec == Init /\ [][GatewayNext]_vars

\* The listeners of one socket: registrations, cancellations and the frames
\* that reach the listener loop, which are the DISPATCH frames.
ListenerNext ==
    \/ \E msg \in {f \in Frames : f.op = DISPATCH} : GwPollFrame(msg)
    \/ \E event \in WaitEvents, predicate \in Predicates, result \in Projectors :
           GwWaitFor(event, predicate, result)
    \/ \E future \in 1 .. MaxFutures : GwCancel(future)

ListenerSpec == Init /\ [][ListenerNext]_vars

\* The frames that concern the heartbeat drivers.
HeartbeatFrames ==
    {f \in Frames : f.op \in {HELLO, HEARTBEAT_ACK, HEARTBEAT, RECONNECT}}

\* The heartbeat drivers of a socket, the clock, and the socket's frames,
\* closes and replacement.
HeartbeatNext ==
    \/ \E msg \in HeartbeatFrames : GwPollFrame(msg)
    \/ \E code \in GatewayCloseCodes : GwRemoteClose(code)
    \/ \E with_resume \in BOOLEAN : GwFromClient(with_resume)
    \/ \E i \in 1 .. MaxDrivers : GwDriverWake(i)
    \/ \E i \in 1 .. MaxDrivers : GwDriverClose(i)
    \/ \E i \in 1 .. MaxDrivers : GwDriverSend(i)
    \/ \E i \in 1 .. MaxDrivers : GwDriverExit(i)
    \/ GwTick

HeartbeatSpec == Init /\ [][HeartbeatNext]_vars

(***************************************************************************)
(* Actions: the stream player                                              *)
(***************************************************************************)
PlStep(op, arg) == [op |-> op, arg |-> arg, from |-> disconnected]

\* The worker thread is at the given place of run.
WorkerAt(pc) == pl.thread = "running" /\ pl.pc = pc

\* create_stream_player on a connected voice client.
PlCreate(frames, after_raises, counters) ==
    /\ pl.thread = "none"
    /\ pl' = StreamPlayer(frames, after_raises, counters)
    /\ last' = PlStep("create_stream_player", frames)
    /\ UNCHANGED <<vcs, obs, gw, udp>>

\* start(): the worker thread begins run.
PlStart ==
    /\ pl.thread = "created"
    /\ pl' = [pl EXCEPT !.thread = "running", !.pc = "loop"]
    /\ last' = PlStep("start", 0)
    /\ UNCHANGED <<vcs, obs, gw, udp>>

PlLoop ==
    /\ WorkerAt("loop")
    /\ pl' = run_loop(pl)
    /\ last' = PlStep("run_loop", 0)
    /\ UNCHANGED <<vcs, obs, gw, udp>>

\* _resumed.wait() returns once the flag is set.
PlWaitDone ==
    /\ WorkerAt("wait")
    /\ pl.resumed
    /\ pl' = [pl EXCEPT !.pc = "check"]
    /\ last' = PlStep("run_wait", 0)
    /\ UNCHANGED <<vcs, obs, gw, udp>>

PlCheck ==
    /\ WorkerAt("check")
    /\ pl' = run_check(pl)
    /\ last' = PlStep("run_check", 0)
    /\ UNCHANGED <<vcs, obs, gw, udp>>

PlRead ==
    /\ WorkerAt("read")
    /\ pl' = run_read(pl)
    /\ last' = PlStep("run_read", 0)
    /\ UNCHANGED <<vcs, obs, gw, udp>>

PlPlay ==
    /\ WorkerAt("play")
    /\ pl' = run_play(pl)
    /\ last' = PlStep("run_play", pl.data)
    /\ UNCHANGED <<vcs, obs, gw, udp>>

\* The user pauses a player that is not paused.
PlPause ==
    /\ pl.thread # "none"
    /\ pl.resumed
    /\ pl' = player_pause(pl)
    /\ last' = PlStep("pause", 0)
    /\ UNCHANGED <<vcs, obs, gw, udp>>

\* The user resumes a paused player.
PlResume ==
    /\ pl.thread # "none"
    /\ ~pl.resumed
    /\ pl' = [player_resume(pl) EXCEPT !.interrupted = TRUE]
    /\ last' = PlStep("resume", 0)
    /\ UNCHANGED <<vcs, obs, gw, udp>>

\* The user stops the player.
PlStop ==
    /\ pl.thread # "none"
    /\ pl.stops < MaxStops
    /\ pl' = [player_stop(pl) EXCEPT !.stops = @ + 1]
    /\ last' = PlStep("stop", 0)
    /\ UNCHANGED <<vcs, obs, gw, udp>>

\* The voice client disconnects: _connected.clear().
PlDisconnect ==
    /\ pl.thread # "none"
    /\ pl.connected
    /\ pl' = [pl EXCEPT !.connected = FALSE]
    /\ last' = PlStep("disconnect", 0)
    /\ UNCHANGED <<vcs, obs, gw, udp>>

\* The steps of the worker thread.
PlWorker == PlLoop \/ PlWaitDone \/ PlCheck \/ PlRead \/ PlPlay

PlayerNext ==
    \/ \E frames \in 0 .. MaxFrames, after_raises \in BOOLEAN,
          counters \in StartCounters :
           PlCreate(frames, after_raises, counters)
    \/ PlStart
    \/ PlLoop
    \/ PlWaitDone
    \/ PlCheck
    \/ PlRead
    \/ PlPlay
    \/ PlPause
    \/ PlResume
    \/ PlStop
    \/ PlDisconnect

PlayerSpec == Init /\ [][PlayerNext]_vars

\* The worker thread is scheduled as long as it can take a step, and a
\* worker waiting for the resumed flag is woken when the flag is set time
\* and again.
PlayerLiveSpec == PlayerSpec /\ WF_vars(PlWorker) /\ SF_vars(PlWaitDone)

(***************************************************************************)
(* Actions: the socket reader                                              *)
(***************************************************************************)
RdStep(op, arg) == [op |-> op, arg |-> arg, from |-> vcs.state]

RdRegister ==
    /\ vcs.reader.callbacks < MaxCallbacks
    /\ vcs' = [R EXCEPT !.reader = ReaderRegister(@)]
    /\ last' = RdStep("register", 0)
    /\ UNCHANGED <<obs, gw, pl, udp>>

RdUnregister(registered) ==
    /\ registered => vcs.reader.callbacks > 0
    /\ vcs' = [R EXCEPT !.reader = ReaderUnregister(@, registered)]
    /\ last' = RdStep("unregister", IF registered THEN 1 ELSE 0)
    /\ UNCHANGED <<obs, gw, pl, udp>>

RdPause ==
    /\ vcs' = [R EXCEPT !.reader = ReaderPause(@)]
    /\ last' = RdStep("pause", 0)
    /\ UNCHANGED <<obs, gw, pl, udp>>

RdResume ==
    /\ vcs' = [R EXCEPT !.reader = ReaderResume(@)]
    /\ last' = RdStep("resume", 0)
    /\ UNCHANGED <<obs, gw, pl, udp>>

\* _create_socket: a new socket, and the reader resumed.
RdCreateSocket ==
    /\ vcs' = CreateSocket(R)
    /\ last' = RdStep("create_socket", 0)
    /\ UNCHANGED <<obs, gw, pl, udp>>

\* The socket is closed by a disconnect.
RdCloseSocket ==
    /\ vcs.socket = "open"
    /\ vcs' = SocketClose(R)
    /\ last' = RdStep("close_socket", 0)
    /\ UNCHANGED <<obs, gw, pl, udp>>

RdStop ==
    /\ ~vcs.reader.end
    /\ vcs' = [R EXCEPT !.reader = ReaderStop(@)]
    /\ last' = RdStep("stop", 0)
    /\ UNCHANGED <<obs, gw, pl, udp>>

\* The worker thread at the top of its loop.
RdLoop ==
    /\ vcs.reader.pc = "loop"
    /\ vcs' = [R EXCEPT !.reader = ReaderLoop(@)]
    /\ last' = RdStep("reader_loop", 0)
    /\ UNCHANGED <<obs, gw, pl, udp>>

\* _running.wait() returns once the flag is set.
RdWaitDone ==
    /\ vcs.reader.pc = "wait"
    /\ vcs.reader.running
    /\ vcs' = [R EXCEPT !.reader.pc = "loop"]
    /\ last' = RdStep("reader_wait", 0)
    /\ UNCHANGED <<obs, gw, pl, udp>>

RdSelect(readable) ==
    /\ vcs.reader.pc = "select"
    /\ vcs' = [R EXCEPT !.reader = ReaderSelect(@, vcs.socket, readable)]
    /\ last' = RdStep("reader_select", IF readable THEN 1 ELSE 0)
    /\ UNCHANGED <<obs, gw, pl, udp>>

RdRecv ==
    /\ vcs.reader.pc = "recv"
    /\ vcs' = [R EXCEPT !.reader = ReaderRecv(@)]
    /\ last' = RdStep("reader_recv", 0)
    /\ UNCHANGED <<obs, gw, pl, udp>>

ReaderNext ==
    \/ RdRegister
    \/ \E registered \in BOOLEAN : RdUnregister(registered)
    \/ RdPause
    \/ RdResume
    \/ RdCreateSocket
    \/ RdCloseSocket
    \/ RdStop
    \/ RdLoop
    \/ RdWaitDone
    \/ \E readable \in BOOLEAN : RdSelect(readable)
    \/ RdRecv

ReaderSpec == Init /\ [][ReaderNext]_vars

(***************************************************************************)
(* Actions: UDP discovery                                                  *)
(***************************************************************************)
\* READY carries an ssrc; the server answers the request with the address
\* and port it saw.
Discover(ssrc, ip, port) ==
    /\ udp' = initial_connection(ssrc, ip, port)
    /\ last' = [op |-> "initial_connection", arg |-> ssrc, from |-> vcs.state]
    /\ UNCHANGED <<vcs, obs, gw, pl>>

DiscoveryNext ==
    \E ssrc \in Ssrcs, ip \in Addresses, port \in Ports :
        Discover(ssrc, ip, port)

DiscoverySpec == Init /\ [][DiscoveryNext]_vars

(***************************************************************************)
(* Claims                                                                  *)
(***************************************************************************)
BothKinds == {"state", "server"}

\* C1 (as stated): in a run of voice_state_update and voice_server_update
\* deliveries that starts in set_guild_voice_state, the flow state is
\* got_both_voice_updates exactly when both kinds of event have been
\* delivered at least once, whatever their payloads.
C1_AnyDelivery ==
    obs.open => (vcs.state = got_both_voice_updates <=> obs.any = BothKinds)

\* C1 (amended): in such a run the flow state is got_both_voice_updates
\* exactly when both a voice_state_update with a channel id and a
\* voice_server_update with a token and an endpoint have been delivered at
\* least once: never earlier and never later.
C1_BothObserved ==
    obs.open => (vcs.state = got_both_voice_updates <=> obs.eff = BothKinds)

\* C1 witness: a run that reached got_both_voice_updates at the
\* voice_state_update that followed a voice_server_update.
C1_Witness ==
    /\ obs.open
    /\ obs.eff = BothKinds
    /\ vcs.state = got_both_voice_updates
    /\ last.op = "voice_state_update"
    /\ last.from = got_voice_server_update

\* C2: from every reachable state in set_guild_voice_state, delivering the
\* same two events (with a channel id, a token and an endpoint) in the order
\* state, server and in the order server, state gives the same supervisor:
\* flow state got_both_voice_updates, the session id of the one event, the
\* token, server id and stripped endpoint of the other, and an open UDP
\* socket created by the voice_server_update; the two results are equal in
\* every field, tasks included, so what follows is the same in both orders.
C2_OrderIndependent ==
    vcs.state = set_guild_voice_state =>
        \A d1 \in VoiceStatePayloads, d2 \in VoiceServerPayloads :
            (d1.channel_id # None /\ d2.token # None /\ d2.endpoint # EndpointNone) =>
                LET a == voice_server_update(voice_state_update(R, d1), d2)
                    b == voice_state_update(voice_server_update(R, d2), d1)
                IN /\ a = b
                   /\ a.state = got_both_voice_updates
                   /\ a.session_id = d1.session_id
                   /\ a.token = d2.token
                   /\ a.server_id = d2.guild_id
                   /\ a.endpoint = <<"h1">>
                   /\ a.socket = "open"
                   /\ a.eff.sock_new = 1

\* C2 witness: the pair was delivered to a connector waiting in
\* set_guild_voice_state, the voice_server_update last, and the connect that
\* follows ended in connected.
C2_Witness ==
    /\ vcs.state = connected
    /\ last.op = "ConnectorSessionDescription"
    /\ vcs.connector.i = 0
    /\ vcs.session_id # MISSING
    /\ vcs.token = 1

\* A voice_state_update with channel_id None is delivered in this step.
NullChannelStep ==
    last'.op = "voice_state_update" /\ last'.arg.channel_id = None

C4_OwnLeaveIgnored ==
    [][(NullChannelStep /\ vcs.expecting_disconnect) =>
          vcs' = [R EXCEPT !.expecting_disconnect = FALSE]]_vars

\* C4 witness: the flag was cleared by a null-channel update taken while
\* connected, and the supervisor is still connected.
C4_Witness ==
    /\ last.op = "voice_state_update"
    /\ last.arg.channel_id = None
    /\ last.from = connected
    /\ vcs.state = connected
    /\ ~vcs.expecting_disconnect
    /\ vcs.eff = NoEffect

\* A voice_state_update naming another channel is delivered while connected.
MovedStep ==
    /\ last'.op = "voice_state_update"
    /\ last'.arg.channel_id \notin {None, vcs.channel}
    /\ vcs.state = connected

\* C5 (as stated): while connected, a voice_state_update whose channel
\* differs from the current one soft-disconnects into
\* got_voice_state_update and starts a new connect.
C5_MovedReconnects ==
    [][MovedStep =>
          /\ vcs'.state = got_voice_state_update
          /\ vcs'.connector.status = "running"
          /\ vcs'.connector.pc = "start"]_vars

\* C5 (amended): while connected, a voice_state_update whose channel X'
\* differs from the current one stores the session id and sets the voice
\* client's channel to X' and does nothing else: no soft_disconnect, no new
\* connect, the WebSocket, the poller and the connector are untouched and the
\* supervisor stays connected, now with channel X'.
C5_MovedStaysConnected ==
    [][MovedStep =>
          vcs' = [R EXCEPT !.session_id = last'.arg.session_id,
                           !.channel = last'.arg.channel_id]]_vars

\* C5 witness: connected, in channel 2 after a voice_state_update for
\* channel 2 taken while connected, the poller still polling.
C5_Witness ==
    /\ last.op = "voice_state_update"
    /\ last.from = connected
    /\ last.arg.channel_id = 2
    /\ vcs.channel = 2
    /\ vcs.state = connected
    /\ vcs.runner.status = "running"
    /\ vcs.runner.pc = "poll"

\* The poller has just finished the handshake of a potential reconnect.
BackInLoop ==
    /\ last.op \in {"RunnerWsOpen", "RunnerReady", "RunnerSessionDescription"}
    /\ vcs.runner.status = "running"
    /\ vcs.runner.pc = "poll"

\* The steps in which _potential_reconnect returns False.
PotentialFailures ==
    {"RunnerPotentialTimeout", "RunnerWsOpenFail", "RunnerHandshakeClosed",
     "RunnerHandshakeTimeout"}

C7_ZombieReconnects ==
    (last.op = "RunnerReconnect" /\ vcs.ws.code = 1006) =>
        vcs.connector.status = "running"

\* The poller sees a close code that is neither normal nor 4014.
OtherCloseStep ==
    last'.op = "RunnerClosed" /\ last'.arg \notin {1000, 4015, 4014}

\* C8: when the poller sees a close code other than 1000, 4015 and 4014:
\* with reconnect=false it disconnects in full (flow state disconnected, one
\* leave, reader stopped, cleanup hook called) and the poller task fails;
\* with reconnect=true it sends nothing at first, then, after the backoff,
\* disconnects with cleanup=false (one leave, flow state disconnected, the
\* reader paused, its end flag untouched, the cleanup hook not called), and
\* only after that calls connect(), which creates a connector.
C8_OtherClose ==
    /\ [][(OtherCloseStep /\ ~vcs.runner.reconnect) =>
            /\ vcs'.state = disconnected
            /\ vcs'.eff.leave = 1
            /\ vcs'.eff.cleanup = 1
            /\ vcs'.reader.end
            /\ vcs'.runner.status = "failed"
            /\ vcs'.connector = vcs.connector]_vars
    /\ [][(OtherCloseStep /\ vcs.runner.reconnect) =>
            /\ vcs'.state = vcs.state
            /\ vcs'.eff.leave = 0
            /\ vcs'.eff.cleanup = 0
            /\ vcs'.reader = vcs.reader
            /\ vcs'.runner.status = "running"
            /\ vcs'.runner.pc = "backoff"]_vars
    /\ [][last'.op = "RunnerBackoffDone" =>
            /\ vcs'.state = disconnected
            /\ vcs'.eff.leave = 1
            /\ vcs'.eff.cleanup = 0
            /\ vcs'.reader.end = vcs.reader.end
            /\ ~vcs'.reader.running
            /\ vcs'.connector = vcs.connector
            /\ vcs'.runner.pc = "racy_sleep"]_vars
    /\ [][last'.op = "RunnerReconnect" =>
            /\ vcs.runner.pc = "racy_sleep"
            /\ vcs'.eff.cleanup = 0
            /\ vcs'.reader = vcs.reader
            /\ vcs'.connector.pc = "start"
            /\ vcs'.connector.reconnect]_vars

\* C8 witness: after close code 1006 with reconnect=true the poller has
\* called connect(); the reader is paused and was never stopped.
C8_Witness ==
    /\ last.op = "RunnerReconnect"
    /\ vcs.ws.code = 1006
    /\ ~vcs.reader.running
    /\ ~vcs.reader.end

HandshakeFailures == {"ConnectorWsOpenFail", "ConnectorClosed", "ConnectorTimeout"}

ConnectorRunsWithoutPoller ==
    vcs.connector.status = "running" => ~Truthy(vcs.runner)

\* C11 (as stated): cancelling the connector at a suspension point ends in a
\* soft disconnect and nothing more: the signaling WebSocket is not left
\* open, ip and port are cleared, the reader is paused, the UDP socket is not
\* left open, no leave is sent, the reader is not stopped and the cleanup
\* hook is not called; any other exception in the connector ends in a full
\* disconnect with the flow state disconnected.
C11_CancelSoftDisconnects ==
    /\ [][last'.op = "ConnectorCancelled" =>
            /\ vcs'.eff.leave = 0
            /\ vcs'.eff.cleanup = 0
            /\ ~vcs'.reader.end
            /\ vcs'.ws.status # "open"
            /\ vcs'.socket # "open"
            /\ ~vcs'.reader.running
            /\ vcs'.ip = MISSING
            /\ vcs'.port = MISSING]_vars
    /\ [][vcs'.connector.pc = "raised" /\ vcs.connector.pc # "raised" =>
            /\ vcs'.state = disconnected
            /\ vcs'.eff.leave >= 1
            /\ vcs'.eff.cleanup >= 1]_vars

MovingStates ==
    FlowStates \ {disconnected, set_guild_voice_state, got_voice_server_update,
                  connected}
ReplacingStates ==
    FlowStates \ {disconnected, set_guild_voice_state, got_voice_state_update,
                  connected}

\* A call of soft_disconnect(with_state) happens in this step: by a
\* voice_state_update that names another channel during the flow, by a
\* voice_server_update with token and endpoint during the flow, or by the
\* cancellation of the connector.
SoftDisconnectCalled(with_state) ==
    \/ /\ with_state = got_voice_state_update
       /\ last'.op = "voice_state_update"
       /\ last'.arg.channel_id \notin {None, vcs.channel}
       /\ vcs.state \in MovingStates
    \/ /\ with_state = got_voice_server_update
       /\ last'.op = "voice_server_update"
       /\ Effective(last')
       /\ vcs.state \in ReplacingStates
    \/ /\ with_state = got_both_voice_updates
       /\ last'.op = "ConnectorCancelled"

\* C13 (as stated): every call of soft_disconnect(with_state) returns
\* normally, leaves no poller running, leaves the signaling WebSocket closed,
\* clears ip and port, leaves the flow state equal to with_state, sends no
\* leave, does not stop the reader or call the cleanup hook and leaves
\* expecting_disconnect unchanged.
C13_SoftDisconnect ==
    [][\A w \in FlowStates :
          SoftDisconnectCalled(w) =>
              /\ vcs'.eff.exc = "none"
              /\ vcs'.state = w
              /\ vcs'.ws.status # "open"
              /\ vcs'.ip = MISSING
              /\ vcs'.port = MISSING
              /\ vcs'.eff.leave = 0
              /\ vcs'.eff.cleanup = 0
              /\ vcs'.reader.end = vcs.reader.end
              /\ vcs'.expecting_disconnect = vcs.expecting_disconnect]_vars

\* A call of soft_disconnect made while a poller task exists does what C13
\* says; the calls that fail are the ones made with _runner still MISSING.
SoftDisconnectWithPoller ==
    [][\A w \in FlowStates :
          (SoftDisconnectCalled(w) /\ Truthy(vcs.runner)) =>
              /\ vcs'.eff.exc = "none"
              /\ vcs'.state = w
              /\ vcs'.ws.status # "open"
              /\ vcs'.ip = MISSING
              /\ vcs'.eff.leave = 0
              /\ vcs'.eff.cleanup = 0]_vars

\* A soft_disconnect with a poller has been called and has worked.
SoftDisconnectWorked ==
    /\ last.op = "voice_state_update"
    /\ last.from \in MovingStates
    /\ vcs.state = got_voice_state_update
    /\ vcs.connector.pc = "start"
    /\ vcs.ws.status = "closed"

\* What "ignored" means for a delivery taken in disconnected.
DeliveryIgnored ==
    /\ vcs'.state = disconnected
    /\ vcs'.eff.leave = 0
    /\ vcs'.eff.join = 0
    /\ vcs'.eff.sock_new = 0
    /\ vcs'.eff.ws_close = 0
    /\ vcs'.eff.cleanup = 0
    /\ vcs'.reader = vcs.reader
    /\ vcs'.socket = vcs.socket
    /\ vcs'.runner = vcs.runner
    /\ vcs'.connector = vcs.connector

\* C14 (as stated): while the flow state is disconnected, every
\* voice_state_update and every voice_server_update is ignored: the flow
\* state stays disconnected, nothing is sent to the control plane, no UDP
\* socket is created, and neither disconnect nor the cleanup hook runs.
C14_DisconnectedIgnores ==
    [][(last'.op \in Deliveries /\ vcs.state = disconnected) =>
          DeliveryIgnored]_vars

\* Every delivery taken in disconnected is ignored in that sense, except a
\* voice_state_update with channel_id None that finds expecting_disconnect
\* unset.
DisconnectedIgnoresOthers ==
    [][(/\ last'.op \in Deliveries
        /\ vcs.state = disconnected
        /\ ~(NullChannelStep /\ ~vcs.expecting_disconnect)) =>
          DeliveryIgnored]_vars

\* The orders of flow states C15 names, and the orders the code produces.
StatedPaths ==
    { <<set_guild_voice_state, x, got_both_voice_updates, websocket_connected,
        got_websocket_ready, got_ip_discovery, connected>> :
      x \in {got_voice_state_update, got_voice_server_update} }
ActualPaths ==
    { <<set_guild_voice_state, x, got_both_voice_updates, websocket_connected,
        got_ip_discovery, connected>> :
      x \in {got_voice_state_update, got_voice_server_update} }

IsPrefix(p, q) == Len(p) <= Len(q) /\ SubSeq(q, 1, Len(p)) = p

\* C15 (as stated): in a connect with no failure, timeout or unexpected
\* event the flow states entered are, in this order, set_guild_voice_state,
\* one of got_voice_state_update / got_voice_server_update,
\* got_both_voice_updates, websocket_connected, got_websocket_ready,
\* got_ip_discovery and connected.
C15_StatedOrder ==
    obs.path # << >> => \E q \in StatedPaths : IsPrefix(obs.path, q)

\* C15 (amended): in such a connect the flow state never decreases and the
\* states entered are, in this order, set_guild_voice_state, one of
\* got_voice_state_update / got_voice_server_update, got_both_voice_updates,
\* websocket_connected, got_ip_discovery and connected;
\* got_websocket_ready is never entered, in such a connect or otherwise; and
\* whenever connected is entered, SESSION_DESCRIPTION has been received on
\* the open WebSocket and the discovery has set ip.
C15_HappyPath ==
    /\ [](obs.path # << >> => \E q \in ActualPaths : IsPrefix(obs.path, q))
    /\ [](obs.path # << >> => vcs.state = obs.path[Len(obs.path)])
    /\ [](vcs.state # got_websocket_ready)
    /\ [][(vcs'.state = connected /\ vcs.state # connected) =>
            /\ last'.op \in {"ConnectorSessionDescription", "ConnectorReady",
                              "RunnerSessionDescription", "RunnerReady"}
            /\ vcs'.ws.status = "open"
            /\ vcs'.ws.secret_key
            /\ vcs'.ip # MISSING]_vars

\* C15 witness: an undisturbed connect has ended in connected, by way of
\* got_voice_server_update.
C15_Witness ==
    /\ vcs.state = connected
    /\ obs.path = <<set_guild_voice_state, got_voice_server_update,
                    got_both_voice_updates, websocket_connected,
                    got_ip_discovery, connected>>
    /\ last.op = "ConnectorSessionDescription"

(***************************************************************************)
(* Claims: the gateway socket                                              *)
(***************************************************************************)
TerminalCloseCodes == {1000, 4004, 4010, 4011}

PolledFrame(step) == step.op = "poll_event"

\* C16: a poll of a socket closed with code c raises ConnectionClosed when
\* c is 1000, 4004, 4010 or 4011; with any other code it raises the resume
\* request carrying the shard id, never ConnectionClosed.
C16_PollClosed ==
    last.op = "poll_closed" =>
        IF last.arg \in TerminalCloseCodes
        THEN gw.exc = Exc("ConnectionClosed", ShardId)
        ELSE gw.exc = Exc("ResumeWebSocket", ShardId)

C16_Witness ==
    /\ last.op = "poll_closed"
    /\ last.arg = 1006
    /\ gw.exc = Exc("ResumeWebSocket", ShardId)

\* C17: every send operation called on a closed socket raises a
\* ConnectionClosed (the library's or the transport's) when the close code
\* is terminal and returns normally, with nothing sent, when it is not.
C17_SendOnClosed ==
    (last.op \in SendOps /\ gw.status = "closed") =>
        /\ gw.sent = << >>
        /\ IF gw.code \in TerminalCloseCodes
           THEN gw.exc.type \in {"ConnectionClosed", "websockets.ConnectionClosed"}
           ELSE gw.exc = NoExc

\* The send operations that go through send_as_json behave as C17 states.
SendAsJsonOnClosed ==
    (last.op \in SendOps \ {"change_presence"} /\ gw.status = "closed") =>
        /\ gw.sent = << >>
        /\ IF gw.code \in TerminalCloseCodes
           THEN gw.exc = Exc("ConnectionClosed", ShardId)
           ELSE gw.exc = NoExc

\* C18 as stated: the stored sequence is the largest s seen since the last
\* READY or RESUMED, whatever order the frames come in.
C18_SequenceIsMax == gw.sequence = gw.hist.maxseen

\* C18: the stored sequence is the s of the latest frame that carried one
\* since the last READY or RESUMED, and null after an INVALIDATE_SESSION
\* with d false; a frame without s leaves it alone.  It is the largest s
\* seen as long as the frames carry non-decreasing s values.
C18_SequenceIsLatest ==
    /\ [][PolledFrame(last') =>
            LET msg == last'.arg
            IN /\ msg.s # None => gw'.sequence = msg.s
               /\ (msg.op = INVALIDATE_SESSION /\ msg.d = 0)
                      => gw'.sequence = None
               /\ (msg.s = None /\ ~(msg.op = INVALIDATE_SESSION /\ msg.d = 0))
                      => gw'.sequence = gw.sequence]_vars
    /\ [](gw.hist.ordered => gw.sequence = gw.hist.maxseen)

C18_Witness ==
    /\ PolledFrame(last)
    /\ last.arg.s = 1
    /\ gw.sequence = 1
    /\ gw.hist.maxseen = 2

\* C19: INVALIDATE_SESSION with d false clears session id and sequence and
\* sends IDENTIFY on the socket, which stays open; with d true both keep
\* their values, the socket is closed, the resume request is raised and no
\* IDENTIFY is sent.
C19_InvalidateSession ==
    [][(PolledFrame(last') /\ last'.arg.op = INVALIDATE_SESSION) =>
          IF last'.arg.d = 0
          THEN /\ gw'.session_id = None
               /\ gw'.sequence = None
               /\ gw'.sent = << IDENTIFY >>
               /\ gw'.status = "open"
               /\ gw'.exc = NoExc
          ELSE /\ gw'.session_id = gw.session_id
               /\ gw'.sequence = gw.sequence
               /\ gw'.sent = << >>
               /\ gw'.status = "closed"
               /\ gw'.exc = Exc("ResumeWebSocket", ShardId)]_vars

C19_Witness ==
    /\ PolledFrame(last)
    /\ last.arg.op = INVALIDATE_SESSION
    /\ last.arg.d = 1
    /\ gw.session_id = ReadySession
    /\ gw.sequence = 2
    /\ gw.status = "closed"

FutureDone(state) == state \in {"data", "projected", "exception", "cancelled"}

ToRemove(entry, futs, msg) ==
    /\ entry.event = msg.t
    /\ \/ futs[entry.future] = "cancelled"
       \/ PredicateRaises(entry.predicate, msg.d)
       \/ PredicateValid(entry.predicate, msg.d)

\* The listeners the pass is to leave, in registration order.
Remaining(listeners, futs, msg) ==
    SelectSeq(listeners, LAMBDA entry : ~ToRemove(entry, futs, msg))

\* The outcome the pass is to give the listener's future.
OutcomeAfter(entry, futs, msg) ==
    IF entry.event # msg.t \/ futs[entry.future] # "pending"
    THEN futs[entry.future]
    ELSE IF PredicateRaises(entry.predicate, msg.d) THEN "exception"
    ELSE IF PredicateValid(entry.predicate, msg.d) /\ entry.result = "None"
    THEN "data"
    ELSE IF PredicateValid(entry.predicate, msg.d) /\ entry.result = "project"
    THEN "projected"
    ELSE futs[entry.future]

DispatchPass == PolledFrame(last') /\ last'.arg.op = DISPATCH

Registered(listeners, future) ==
    \E j \in 1 .. Len(listeners) : listeners[j].future = future

\* The listener's projector raises in the pass for the frame.
ProjectorRaises(entry, futs, msg) ==
    /\ entry.event = msg.t
    /\ futs[entry.future] # "cancelled"
    /\ PredicateValid(entry.predicate, msg.d)
    /\ entry.result = "raise"

\* C21: after the dispatch pass for an event exactly the listeners of that
\* event that were cancelled, whose predicate raised or whose predicate
\* accepted are removed and the others remain, and each future has the
\* outcome its listener's predicate and projector give it.  Nothing is
\* stated here of a listener whose own projector raises.
C21_PassRemoves ==
    [][DispatchPass =>
          \A i \in 1 .. Len(gw.listeners) :
              LET entry == gw.listeners[i]
              IN ~ProjectorRaises(entry, gw.futs, last'.arg) =>
                     /\ Registered(gw'.listeners, entry.future)
                            <=> ~ToRemove(entry, gw.futs, last'.arg)
                     /\ gw'.futs[entry.future]
                            = OutcomeAfter(entry, gw.futs, last'.arg)]_vars

\* A pass that raises nothing removes and completes as C21 states.
PassWithoutRaiseRemoves ==
    [][(DispatchPass /\ gw'.exc = NoExc) =>
          /\ gw'.listeners = Remaining(gw.listeners, gw.futs, last'.arg)
          /\ \A i \in 1 .. Len(gw.listeners) :
                 gw'.futs[gw.listeners[i].future]
                     = OutcomeAfter(gw.listeners[i], gw.futs, last'.arg)]_vars

\* One pass satisfies two listeners and removes both.
PassSatisfiesSeveral ==
    /\ PolledFrame(last)
    /\ gw.exc = NoExc
    /\ gw.futs[1] = "data"
    /\ gw.futs[2] = "projected"
    /\ gw.listeners = << >>

(***************************************************************************)
(* Claims: the heartbeat driver                                            *)
(***************************************************************************)
\* The driver a step of the last kind was taken by.
DriverStep(step, op) == step.op = op

WakeDecides ==
    DriverStep(last', "driver_wake") =>
        (gw'.drivers[last'.arg].pc = "close"
             <=> gw.drivers[last'.arg].since_ack > 2 * Interval)

\* C22 as stated: a wake-up more than two intervals after the last ack
\* closes the socket with code 1006, sends nothing and ends the driver for
\* good; every other wake-up sends exactly one heartbeat and the driver
\* keeps running.
C22_WakeUp ==
    /\ [][/\ WakeDecides
          /\ DriverStep(last', "driver_close") =>
                 /\ gw'.status = "closed" /\ gw'.code = 1006
                 /\ gw'.sent = << >>
                 /\ gw'.drivers[last'.arg].thread = "terminated"
          /\ DriverStep(last', "driver_send") =>
                 /\ gw'.sent = << HEARTBEAT >>
                 /\ Beating(gw'.drivers[last'.arg])]_vars
    /\ [](\A i \in 1 .. MaxDrivers :
              gw.drivers[i].thread = "terminated" => gw.drivers[i].pc = "none")

\* C22: a wake-up more than two intervals after the last ack closes the
\* socket with code 1006 if it is still open, sends nothing and ends the
\* driver for good; every other wake-up sends exactly one heartbeat and the
\* driver keeps running if the socket is open when the heartbeat is sent;
\* on a socket closed meanwhile it sends nothing, and stops the driver when
\* the close code is terminal.
C22_WakeUpOpen ==
    /\ [][/\ WakeDecides
          /\ DriverStep(last', "driver_close") =>
                 /\ gw'.status = "closed"
                 /\ gw.status = "open" => gw'.code = 1006
                 /\ gw.status = "closed" => gw'.code = gw.code
                 /\ gw'.sent = << >>
                 /\ gw'.drivers[last'.arg].thread = "terminated"
          /\ DriverStep(last', "driver_send") =>
                 IF gw.status = "open"
                 THEN /\ gw'.sent = << HEARTBEAT >>
                      /\ Beating(gw'.drivers[last'.arg])
                 ELSE /\ gw'.sent = << >>
                      /\ gw'.exc = NoExc
                      /\ gw'.drivers[last'.arg].thread = "running"
                      /\ gw'.drivers[last'.arg].stop_ev
                             = (gw.drivers[last'.arg].stop_ev
                                    \/ gw.code \in TerminalCloseCodes)]_vars
    /\ [](\A i \in 1 .. MaxDrivers :
              gw.drivers[i].thread = "terminated" => gw.drivers[i].pc = "none")

C22_Witness ==
    /\ last.op = "driver_close"
    /\ gw.code = 1006
    /\ gw.drivers[last.arg].thread = "terminated"
    /\ gw.drivers[last.arg].since_ack > 2 * Interval

WrapSum(val, value) ==
    LET sum == WideSum(val, value)
    IN Timestamp(sum.hi % (HalfLimit + 1), sum.lo)

\* C24: each sent packet's sequence is the previous one plus 1 mod 2^16 and
\* its timestamp the previous one plus samples_per_frame mod 2^32, across
\* the wrap-around of either counter, one packet per frame sent.
C24_CountersWrap ==
    /\ Len(pl.packets) = Len(pl.sent)
    /\ \A k \in 1 .. (Len(pl.packets) - 1) :
           /\ pl.packets[k + 1].sequence
                  = (pl.packets[k].sequence + 1) % (HalfLimit + 1)
           /\ pl.packets[k + 1].timestamp
                  = WrapSum(pl.packets[k].timestamp, SamplesPerFrame)

\* The sequence alone wraps as C24 states, one packet per frame sent.
SequenceWraps ==
    /\ Len(pl.packets) = Len(pl.sent)
    /\ \A k \in 1 .. (Len(pl.packets) - 1) :
           pl.packets[k + 1].sequence
               = (pl.packets[k].sequence + 1) % (HalfLimit + 1)

\* The sequence has wrapped from 65535 to 0.
SequenceWrapped ==
    \E k \in 1 .. (Len(pl.packets) - 1) :
        pl.packets[k].sequence = HalfLimit /\ pl.packets[k + 1].sequence = 0

\* C25: whenever and however often pause() and resume() are called, the
\* frames handed to the sender are the frames of the stream in order, none
\* dropped, duplicated or reordered, and a player that runs to the end of
\* its stream has handed over all of them, as an uninterrupted one does.
C25_PauseResume ==
    /\ \A k \in 1 .. Len(pl.sent) : pl.sent[k] = k
    /\ (pl.thread = "finished" /\ pl.stops = 0 /\ pl.connected)
           => Len(pl.sent) = pl.frames

C25_Witness ==
    /\ pl.thread = "finished"
    /\ pl.interrupted
    /\ pl.stops = 0
    /\ pl.connected
    /\ pl.frames >= 2
    /\ Len(pl.sent) = pl.frames

\* C26: under every interleaving of one stop() of the user with the
\* worker's own termination the finalizer is invoked exactly once over the
\* life of the player, and an exception it raises reaches nobody.
C26_FinalizerOnce ==
    pl.stops <= 1 =>
        /\ pl.after_calls <= 1
        /\ pl.thread = "finished" => pl.after_calls = 1
        /\ ~pl.escaped

\* The finalizer is invoked once by each stop(), the user's and the
\* worker's, and what it raises is dropped.
FinalizerPerStop ==
    /\ pl.after_calls >= pl.stops
    /\ pl.after_calls <= pl.stops + 1
    /\ pl.thread = "finished" => pl.after_calls >= 1
    /\ ~pl.escaped

\* C27: a player that is running or paused and not done when the connected
\* flag is cleared ends on its own.
C27_DropTerminates ==
    (pl.thread = "running" /\ ~pl.connected /\ ~pl.end)
        ~> (pl.thread = "finished")

\* A player that is not paused when the flag is cleared, and is not paused
\* later, ends on its own.
DropTerminatesUnpaused ==
    (pl.thread = "running" /\ ~pl.connected)
        ~> (pl.thread = "finished" \/ ~pl.resumed)

\* The worker hands over at most the frame it had read when the flag was
\* cleared: nothing is sent by a worker that has seen the flag cleared.
NoFrameAfterDrop ==
    [][(~pl.connected /\ pl.pc \in {"loop", "wait", "check"})
           => pl'.sent = pl.sent]_vars

(***************************************************************************)
(* Claims: the socket reader                                               *)
(***************************************************************************)
\* C29: whenever the reader's worker waits on the socket or reads from it,
\* the running flag is set and a callback is registered.
C29_ReadsOnlyWhenRunning ==
    vcs.reader.pc \in {"select", "recv"} =>
        vcs.reader.running /\ vcs.reader.callbacks > 0

\* The worker goes to the socket only on finding the running flag set.
WorkerEntersOnRunning ==
    [][(vcs.reader.pc = "loop" /\ vcs'.reader.pc = "select")
           => vcs.reader.running]_vars

\* C30: register sets the running flag exactly when the reader is
\* idle-paused; unregistering the last callback of a running reader clears
\* the flag and idle-pauses the reader; a reader paused by pause() is not set
\* running by any register or unregister.
C30_RegisterUnregister ==
    [][/\ last'.op = "register" =>
              /\ vcs'.reader.running
                     = (vcs.reader.running \/ vcs.reader.idle_paused)
              /\ ~vcs'.reader.idle_paused
       /\ (last'.op = "unregister" /\ last'.arg = 1
               /\ vcs.reader.callbacks = 1 /\ vcs.reader.running) =>
              /\ ~vcs'.reader.running
              /\ vcs'.reader.idle_paused
       /\ (last'.op \in {"register", "unregister"}
               /\ ~vcs.reader.running /\ ~vcs.reader.idle_paused) =>
              /\ ~vcs'.reader.running
              /\ ~vcs'.reader.idle_paused]_vars

C30_Witness ==
    /\ last.op = "register"
    /\ vcs.reader.callbacks = 2
    /\ ~vcs.reader.running
    /\ ~vcs.reader.idle_paused
    /\ ~vcs.reader.end

(***************************************************************************)
(* Claims: UDP discovery                                                   *)
(***************************************************************************)
\* C28: the request is 70 bytes, the ssrc big-endian in its first four and
\* zero elsewhere, and from a 70-byte reply with the address in ASCII at
\* offset 4, ended by NUL, and the port little-endian in the last two bytes
\* the address and the port are read as they were written.
C28_Discovery ==
    udp.done =>
        /\ Len(udp.request) = 70
        /\ ((udp.request[1] * 256 + udp.request[2]) * 256
                + udp.request[3]) * 256 + udp.request[4] = udp.ssrc
        /\ \A i \in 1 .. 4 : udp.request[i] \in 0 .. 255
        /\ \A i \in 5 .. 70 : udp.request[i] = 0
        /\ Len(udp.reply) = 70
        /\ udp.ip = udp.sent_ip
        /\ udp.port = udp.sent_port

C28_Witness ==
    /\ udp.done
    /\ udp.ssrc = 16909060
    /\ SubSeq(udp.request, 1, 4) = << 1, 2, 3, 4 >>
    /\ udp.ip = << "1", ".", "2", ".", "3", ".", "4" >>
    /\ udp.port = 48879
    /\ SubSeq(udp.reply, 69, 70) = << 239, 190 >>

(***************************************************************************)
(* Claims: listeners after an aborted pass                                 *)
(***************************************************************************)
\* The future has a result or an exception.
Completed(state) == state \in {"data", "projected", "exception"}

\* C40: after every dispatch pass, a pass left by a raising projector
\* included, no listener whose future is completed remains registered, and
\* no pass completes a future a second time.
C40_NoCompletedRegistered ==
    [][DispatchPass =>
          /\ \A i \in 1 .. Len(gw'.listeners) :
                 ~Completed(gw'.futs[gw'.listeners[i].future])
          /\ gw'.exc.type # "InvalidStateError"]_vars

\* While no projector has left a pass, a pass keeps no completed listener.
PassWithoutRaiseKeepsNone ==
    [][(DispatchPass /\ ~gw'.hist.aborted) =>
          \A i \in 1 .. Len(gw'.listeners) :
              ~Completed(gw'.futs[gw'.listeners[i].future])]_vars

(***************************************************************************)
(* Claims: heartbeat drivers of one socket                                 *)
(***************************************************************************)
\* The drivers of the socket whose thread is alive and not stopped.
RunningDrivers == {i \in 1 .. MaxDrivers : Beating(gw.drivers[i])}

\* C39: at most one heartbeat driver is running per socket at any time; a
\* second HELLO does not leave the driver started before running next to
\* the new one.
C39_OneDriver == Cardinality(RunningDrivers) <= 1

\* The socket refers to at most the driver started last, and a close stops
\* only that one.
ClosedStopsReferredDriver ==
    /\ gw.keep_alive # 0 => gw.drivers[gw.keep_alive].thread # "none"
    /\ \A i \in 1 .. MaxDrivers :
           gw.drivers[i].thread # "none" => gw.keep_alive >= i

(***************************************************************************)
(* Claims: stop() of a player                                              *)
(***************************************************************************)
\* C38: after stop() the worker loop of a player eventually exits, also
\* when the player is paused at the call and resume() is never called.
C38_StopTerminates ==
    (pl.thread = "running" /\ pl.end) ~> (pl.thread = "finished")

\* After stop() the worker loop of a player that is not paused, and is not
\* paused later, exits.
StopTerminatesUnpaused ==
    (pl.thread = "running" /\ pl.end)
        ~> (pl.thread = "finished" \/ ~pl.resumed)

HostOf(raw) ==
    LET a == IF StartsWithWss(raw) THEN SubSeq(raw, 4, Len(raw)) ELSE raw
    IN IF Len(a) >= 2 /\ a[Len(a) - 1] = ":"
       THEN SubSeq(a, 1, Len(a) - 2)
       ELSE a

\* voice_server_update was delivered with a token and an endpoint.
ServerUpdateStored ==
    /\ last'.op = "voice_server_update"
    /\ last'.arg.token # None
    /\ last'.arg.endpoint # EndpointNone

\* C32: after a voice_server_update with a token and an endpoint E the
\* stored endpoint is the host of E, with or without the scheme and with or
\* without a port.
C32_EndpointIsHost ==
    [][ServerUpdateStored => vcs'.endpoint = HostOf(last'.arg.endpoint)]_vars

\* For an endpoint that ends in a port the stored endpoint is its host.
EndpointWithPortIsHost ==
    [][(ServerUpdateStored /\ last'.arg.endpoint \in RawEndpoints)
           => vcs'.endpoint = <<"h1">>]_vars

\* A stored endpoint that had the scheme and the port.
EndpointStripped ==
    /\ last.op = "voice_server_update"
    /\ last.arg.token # None
    /\ last.arg.endpoint = <<"wss", ":", "//", "h1", ":", "443">>
    /\ vcs.endpoint = <<"h1">>

(***************************************************************************)
(* Claims: the creation of the poller                                      *)
(***************************************************************************)
\* The step creates the poller task.
PollerCreated == ~Truthy(vcs.runner) /\ vcs'.runner.status = "running"

\* C33: a poller task is created only while the flow state is connected;
\* when all five attempts of a connect have failed the connect ends without
\* starting a poller.
C33_PollerOnlyConnected ==
    [][/\ PollerCreated => vcs'.state = connected
       /\ (last'.op = "ConnectorSleepDone" /\ vcs'.connector.pc = "done")
              => ~Truthy(vcs'.runner)]_vars

\* A connect whose handshake completes creates the poller in state
\* connected, and nothing but the end of a connect creates a poller.
PollerAfterHandshake ==
    [][PollerCreated =>
          /\ vcs'.connector.pc = "done"
          /\ last'.op # "ConnectorSleepDone" => vcs'.state = connected]_vars

(***************************************************************************)
(* Claims: soft_disconnect without a poller                                *)
(***************************************************************************)
\* C37: soft_disconnect completes without error in every state it can be
\* called in, also when no poller task exists; afterwards the flow state
\* equals with_state and the SocketReader is paused.
C37_SoftDisconnectCompletes ==
    [][\A w \in FlowStates :
          SoftDisconnectCalled(w) =>
              /\ vcs'.eff.exc = "none"
              /\ vcs'.state = w
              /\ ~vcs'.reader.running
              /\ ~vcs'.reader.idle_paused]_vars

\* Every call of soft_disconnect made without a poller task raises and
\* leaves the flow state and the reader as they were.
SoftDisconnectWithoutPoller ==
    [][\A w \in FlowStates :
          (SoftDisconnectCalled(w) /\ ~Truthy(vcs.runner)) =>
              /\ vcs'.eff.exc = "AttributeError"
              /\ vcs'.state = vcs.state
              /\ vcs'.reader = vcs.reader]_vars

(***************************************************************************)
(* Claims: the answers to the supervisor's own leaves                      *)
(***************************************************************************)
\* A null-channel voice_state_update that answers a leave of the supervisor
\* is delivered in this step.
OwnLeaveAnswered == obs.track /\ NullChannelStep /\ obs.owed > 0

\* C34: a null-channel voice_state_update that answers a leave sent by the
\* supervisor itself is never taken for an external disconnect, however
\* many leaves the supervisor has sent: it sends no leave, closes nothing,
\* calls no cleanup and leaves the flow state alone.
C34_OwnLeaveNeverExternal ==
    [][OwnLeaveAnswered =>
          /\ vcs'.eff.leave = 0
          /\ vcs'.eff.ws_close = 0
          /\ vcs'.eff.cleanup = 0
          /\ vcs'.state = vcs.state]_vars

\* As long as the supervisor has one leave unanswered at a time, the answer
\* is not taken for an external disconnect.
SingleLeaveAnswered ==
    [][(OwnLeaveAnswered /\ obs.owed = 1 /\ vcs.expecting_disconnect) =>
          /\ vcs'.eff.leave = 0
          /\ vcs'.eff.ws_close = 0
          /\ vcs'.eff.cleanup = 0
          /\ vcs'.state = vcs.state
          /\ ~vcs'.expecting_disconnect]_vars

(***************************************************************************)
(* Claims: the disconnect of a failed connect                              *)
(***************************************************************************)
\* The connect fails in this step: the wait for the voice updates times
\* out, or the handshake fails with reconnect not allowed.
ConnectFails ==
    \/ last'.op = "ConnectorWaitTimeout"
    \/ last'.op \in HandshakeFailures /\ ~vcs.connector.reconnect

\* C36: for one failed connect the full disconnect runs at most once: at
\* most one leave is sent to the control plane and the cleanup hook is
\* called at most once.
C36_DisconnectOnce ==
    [][ConnectFails =>
          /\ vcs'.eff.leave <= 1
          /\ vcs'.eff.cleanup <= 1]_vars

\* A failed connect runs the full disconnect twice, and a failed attempt
\* that is retried sends one leave and calls no cleanup.
FailedConnectDisconnectsTwice ==
    [][/\ ConnectFails =>
             /\ vcs'.eff.leave = 2
             /\ vcs'.eff.cleanup = 2
             /\ vcs'.state = disconnected
       /\ (last'.op \in HandshakeFailures /\ vcs.connector.reconnect) =>
             /\ vcs'.eff.leave = 1
             /\ vcs'.eff.cleanup = 0]_vars

(***************************************************************************)
(* Claims: the connector that connect() replaced                           *)
(***************************************************************************)
\* C35: when connect() replaces a connector that is still running, the
\* cancellation handling of the old connector does not move the flow state
\* to got_both_voice_updates, and closes neither the UDP socket nor the
\* signaling WebSocket, does not stop the new connector and sends nothing.
C35_OldConnectorHarmless ==
    [][last'.op = "OldConnectorCancelled" =>
          /\ vcs'.state = vcs.state
          /\ vcs'.socket = vcs.socket
          /\ vcs'.ws = vcs.ws
          /\ vcs'.connector = vcs.connector
          /\ vcs'.runner = vcs.runner
          /\ vcs'.reader = vcs.reader
          /\ vcs'.eff.leave = 0
          /\ vcs'.eff.ws_close = 0]_vars

\* The old connector has handled its cancellation next to a new attempt
\* that has an open UDP socket and waits for the voice updates.
C35_Witness ==
    /\ last.op = "OldConnectorCancelled"
    /\ vcs.connector.status = "running"
    /\ vcs.connector.pc = "wait_both"
    /\ vcs.socket = "open"
    /\ vcs.state = got_voice_server_update
    /\ vcs.eff.exc = "AttributeError"

\* While a replaced connector has its cancellation to handle there is no
\* poller.
ReplacedRunsWithoutPoller == vcs.replaced => ~Truthy(vcs.runner)

====
